---- MODULE Spec2Model ----
(***************************************************************************)
(* Navigator, LineFollower, HardwareInterface, FirebaseComm and            *)
(* TrolleyController of the automated shopping trolley controller          *)
(* (src/automatic_shopping_trolley.py), as a state machine.  One action    *)
(* per call entry, one per polling-loop iteration and one per step of the  *)
(* controller between two blocking calls; time is counted in loop ticks.   *)
(***************************************************************************)
EXTENDS Integers, Sequences, FiniteSets, TLC

(* ---------------- bounds of the model ---------------- *)
\* navigation_timeout (60 s) counted in loop iterations
NavTimeoutTicks == 2
\* turn_timeout (20 s) counted in loop ticks
TurnTimeoutTicks == 3
\* the sleep of 1.5 s between the turn command and the first sensor read, in ticks
TurnSettleTicks == 1
\* timeout (60 s) of a confirmation wait, counted in polls
WaitTimeoutTicks == 2

(* ---------------- constants of the program ---------------- *)
CMD_FORWARD == "F"
CMD_BACKWARD == "B"
CMD_STOP == "S"
CMD_LEFT == "L"
CMD_RIGHT == "R"
CMD_SLIGHT_LEFT == "M"
CMD_SLIGHT_RIGHT == "N"

LINE_CENTERED == "CENTERED"
LINE_SLIGHT_LEFT == "SLIGHT_LEFT"
LINE_SLIGHT_RIGHT == "SLIGHT_RIGHT"
LINE_LOST == "LOST"

NODE_MAPPING ==
  [ home |-> 0,
    RFJ1 |-> 1, RFJ2 |-> 2, RFJ3 |-> 3,
    RBJ1 |-> 4, RBJ2 |-> 5, RBJ3 |-> 6,
    pdt1 |-> 7, pdt2 |-> 8, pdt3 |-> 9,
    pdt4 |-> 10, pdt5 |-> 11, pdt6 |-> 12,
    pdt7 |-> 13, pdt8 |-> 14, pdt9 |-> 15 ]

NodeNames == DOMAIN NODE_MAPPING

\* Python's None, as a node name / command / line state
None == "None"

\* str.startswith on node names: the prefix class of each name
NamePrefix(name) ==
  CASE name \in {"RFJ1", "RFJ2", "RFJ3", "RFJ4", "RFJ5", "RFJ6",
                 "RFJ7", "RFJ8", "RFJ9"} -> "RFJ"
    [] name \in {"RBJ1", "RBJ2", "RBJ3"} -> "RBJ"
    [] name \in {"pdt1", "pdt2", "pdt3", "pdt4", "pdt5",
                 "pdt6", "pdt7", "pdt8", "pdt9"} -> "pdt"
    [] OTHER -> name

StartsWith(name, prefix) == NamePrefix(name) = prefix

(* ---------------- inputs ---------------- *)
\* destinations and positions the callers pass in
CallNodes == {"home", "RFJ1", "pdt1", "RBJ1", "RBJ2"}
\* names given to set_current_position ("aisle9" is no node)
SetNames == {"home", "RBJ1", "aisle9"}
TurnCommands == {CMD_LEFT, CMD_RIGHT}

Bits == {0, 1}
SensorReadings == Bits \X Bits \X Bits
\* what the GPIO read delivers: three bits, or an exception
GpioOutcomes == SensorReadings \cup {<<>>}

\* a tag UID as stored or transmitted: the tag of a node, in upper or lower case hex
NoUid == [tag |-> None, upper |-> FALSE]
Uid(node, up) == [tag |-> node, upper |-> up]
\* str.lower
Lower(uid) == [uid EXCEPT !.upper = FALSE]

\* what /products/<node>/uid delivers for a node: nothing (missing entry or a
\* failed read), or the node's UID in either case
RegistryAnswers(node) == {NoUid} \cup {Uid(node, up) : up \in BOOLEAN}

\* a line from the ESP32: nothing waiting, an "RFID:<uid>" line, or other text
NoLine == [kind |-> "none", uid |-> NoUid]
TextLine == [kind |-> "text", uid |-> NoUid]
RfidLine(uid) == [kind |-> "rfid", uid |-> uid]
SerialLines(tags) ==
  {NoLine, TextLine} \cup {RfidLine(Uid(n, up)) : n \in tags, up \in BOOLEAN}

(* ---------------- status messages ---------------- *)
Status(msg, arg) == [msg |-> msg, arg |-> arg]

(* ---------------- state ---------------- *)
(* ---------------- shopping carts ---------------- *)
\* largest quantity of a persisted cart entry in the model
MaxQty == 5
RequestIds == {"r1"}
\* the request ids that events carry; a cart list comes with an id of RequestIds
HandlerIds == {"r1", "r2"}
\* products that lists name (rows 1 and 2 of PRODUCT_ROWS)
CartProducts == {"pdt1", "pdt5"}
\* keys of a submitted list that are no products (line 619)
SkippedKeys == {"processed", "action"}
DeltaKeys == CartProducts \cup {"action"}

\* a quantity as a list delivers it: an integer, or text
IntValue(n) == [kind |-> "int", n |-> n, text |-> <<>>]
TextValue(t) == [kind |-> "str", n |-> 0, text |-> t]
DigitChars == <<"0", "1", "2", "3", "4", "5", "6", "7", "8", "9">>
\* quantities that lists carry: integers, a numeral as text, text that is none
Quantities ==
  {IntValue(n) : n \in {0 - 3, 0, 2, 3}}
    \cup {TextValue(t) : t \in {<<"1">>, <<"x">>}}
\* the lists a request may carry in its 'cart' field
Deltas ==
  {d \in UNION {[K -> Quantities] : K \in SUBSET DeltaKeys} :
     "action" \in DOMAIN d => d["action"] = TextValue(<<"x">>)}

IsDigit(c) == \E d \in 1..10 : DigitChars[d] = c
DigitValue(c) == (CHOOSE d \in 1..10 : DigitChars[d] = c) - 1
\* int(quantity) raises ValueError: the text is no decimal numeral
IntRaises(quantity) ==
  /\ quantity.kind = "str"
  /\ ~ \/ Len(quantity.text) = 1 /\ IsDigit(quantity.text[1])
       \/ Len(quantity.text) = 2 /\ quantity.text[1] = "-" /\ IsDigit(quantity.text[2])
\* int(quantity) where it does not raise
int(quantity) ==
  IF quantity.kind = "int" THEN quantity.n
  ELSE IF Len(quantity.text) = 1 THEN DigitValue(quantity.text[1])
  ELSE 0 - DigitValue(quantity.text[2])

EmptyCart == [p \in {} |-> 0]
\* dict.get(product_id, 0)
Get(cart, product_id) == IF product_id \in DOMAIN cart THEN cart[product_id] ELSE 0
LosesCart(stored, read_ok) == EmptyCart
\* FirebaseComm.get_cart: the stored cart, or {} when the read raises
get_cart(stored, read_ok) == IF read_ok THEN stored ELSE EmptyCart

AddReplaces(current_qty, add_qty) == add_qty
\* current_qty + add_qty (line 623)
MergedQuantity(current_qty, add_qty) == current_qty + add_qty

KeepsAboveOne(qty) == qty > 1
KeepsZero(qty) == qty >= 0
\* the filter of final_cart (line 625)
KeepQuantity(qty) == qty > 0

\* existing_cart after the loop of lines 618-624
MergeInto(existing_cart, new_cart_items) ==
  LET added == {p \in DOMAIN new_cart_items \ SkippedKeys :
                  ~IntRaises(new_cart_items[p])}
  IN [p \in DOMAIN existing_cart \cup added |->
        IF p \in added
          THEN MergedQuantity(Get(existing_cart, p), int(new_cart_items[p]))
          ELSE existing_cart[p]]
\* final_cart (line 625)
FinalCart(cart) == [p \in {q \in DOMAIN cart : KeepQuantity(cart[q])} |-> cart[p]]

NoMerge == [request_id |-> None, stored |-> EmptyCart, existing |-> EmptyCart,
            delta |-> EmptyCart, final |-> EmptyCart,
            read_ok |-> TRUE, write_ok |-> TRUE]

(* ---------------- itinerary ---------------- *)
PRODUCT_ROWS ==
  [ pdt1 |-> 1, pdt2 |-> 1, pdt3 |-> 1,
    pdt4 |-> 2, pdt5 |-> 2, pdt6 |-> 2,
    pdt7 |-> 3, pdt8 |-> 3, pdt9 |-> 3 ]
\* the keys of products_by_row (line 628)
RowNumbers == {1, 2, 3}
\* PRODUCT_ROWS.get(product_id): the row, or 0 for None
ProductRow(product_id) ==
  IF product_id \in DOMAIN PRODUCT_ROWS THEN PRODUCT_ROWS[product_id] ELSE 0

\* product ids in the order Python sorts their strings
KeysInOrder == <<"pdt1", "pdt2", "pdt3", "pdt4", "pdt5", "pdt6", "pdt7", "pdt8",
                 "pdt9", "pdt99">>
\* sorted(final_cart.keys()) (line 631)
sorted(keys) == SelectSeq(KeysInOrder, LAMBDA k : k \in keys)

\* the product goes to the list of this row (lines 632-634)
InRow(product_id, row) == ProductRow(product_id) = row

\* products_by_row after the loop of lines 631-637
products_by_row(final_cart) ==
  [row \in RowNumbers |->
     SelectSeq(sorted(DOMAIN final_cart), LAMBDA p : InRow(p, row))]
\* valid_products_in_cart after the loop of lines 631-637
valid_products_in_cart(final_cart) ==
  SelectSeq(sorted(DOMAIN final_cart), LAMBDA p : ProductRow(p) \in RowNumbers)

Largest(S) == CHOOSE m \in S : \A x \in S : x <= m
Smallest(S) == CHOOSE m \in S : \A x \in S : m <= x
LowestRowWithItems(rows) ==
  Smallest({0} \cup {row \in RowNumbers : rows[row] # <<>>})
\* highest_row_with_items after the loop of lines 631-637
highest_row_with_items(rows) ==
  Largest({0} \cup {row \in RowNumbers : rows[row] # <<>>})

\* the loop of lines 648-654: the next row with products after a row, 0 if none
NextRow(rows, after) ==
  LET later == {row \in RowNumbers : row > after /\ rows[row] # <<>>}
  IN IF later = {} THEN 0 ELSE Smallest(later)

NeverLastRow(row_num, highest) == FALSE
\* is_last_row_to_process (line 652)
is_last_row_to_process(row_num, highest) == row_num = highest

\* NODE_MAPPING.get(pid, float('inf')) (line 681)
NodeKey(pid) == IF pid \in DOMAIN NODE_MAPPING THEN NODE_MAPPING[pid] ELSE 99
\* one step of a stable sort by NodeKey: p goes behind the entries not above it
InsertByNode(list, p) ==
  LET k == Cardinality({i \in 1..Len(list) : NodeKey(list[i]) <= NodeKey(p)})
  IN SubSeq(list, 1, k) \o <<p>> \o SubSeq(list, k + 1, Len(list))
RECURSIVE SortedByNode(_)
SortedByNode(list) ==
  IF list = <<>> THEN <<>>
  ELSE InsertByNode(SortedByNode(SubSeq(list, 1, Len(list) - 1)), list[Len(list)])
RECURSIVE Reversed(_)
Reversed(list) ==
  IF list = <<>> THEN <<>> ELSE Append(Reversed(Tail(list)), Head(list))
ReverseSorted(product_list) == Reversed(SortedByNode(product_list))
\* sorted_product_list (line 681)
sorted_product_list(product_list) == SortedByNode(product_list)

\* f"RFJ{row_number}" and f"RBJ{row_number}" (lines 670-671)
row_front_junction(row_number) == <<"RFJ1", "RFJ2", "RFJ3">>[row_number]
row_back_junction(row_number) == <<"RBJ1", "RBJ2", "RBJ3">>[row_number]
\* current_node[-1] of an aisle node as a number (line 507)
LastDigit(node) ==
  CHOOSE d \in 1..9 :
    \/ node = KeysInOrder[d]
    \/ d <= 3 /\ node = row_back_junction(d)
FirstFrontJunction(node) == "RFJ1"
\* f"RFJ{row_num_str}" (line 508)
target_rfj(node) ==
  <<"RFJ1", "RFJ2", "RFJ3", "RFJ4", "RFJ5", "RFJ6", "RFJ7", "RFJ8", "RFJ9">>[LastDigit(node)]

\* one entry of the log: a request received at a node, a status written, a
\* command sent by the controller itself, a call started, a call's return
\* value and the node it returned at, the end of the home-return at a node
Event(kind, name, arg) == [kind |-> kind, name |-> name, arg |-> arg]
StatusEvent(msg, arg) == Event("status", msg, arg)
StatusEvents(statuses) ==
  [i \in 1..Len(statuses) |-> StatusEvent(statuses[i].msg, statuses[i].arg)]
\* a row number as it appears in a status text
RowText(row) == DigitChars[row + 1]

NoRows == [row \in RowNumbers |-> <<>>]
NoTrip == [at |-> "idle", cont |-> None, request |-> None, rows |-> NoRows,
           highest |-> 0, row_num |-> 0, is_last_row |-> FALSE, todo |-> <<>>,
           product |-> None]

VARIABLES
  current_node,       \* Navigator.current_node
  pc,                 \* where the Navigator is: "idle", "turn", "nav", "rev"
  op,                 \* the call in progress, or the last one: name, dest, the
                      \* node it started from, the registry's answer for dest
  result,             \* return value of the last call: "none", "True", "False"
  expected_uid,       \* local expected_uid of the navigation call
  last_command_sent,  \* local last_command_sent of navigate_to_node
  turn_command,       \* parameter turn_command of execute_simple_turn
  elapsed,            \* time.time() - start_time of the running loop, in ticks
  sent,               \* commands written to the ESP32 during the call, in order
  reported,           \* statuses written to /trolleyStatus during the call
  iter,               \* the latest loop iteration: what it read and what it sent
  cnt,                \* line-correction iterations, their sends, their repeats
  flags,              \* /trolleyConfirmations/<request>: confirmed, homeConfirmed
  carts,              \* /trolleyCarts: the persisted cart of each request id
  merge,              \* the latest cart merge: what it read, was given and wrote
  processing,         \* /trolleyProcessing/<request>: the flag of each request id
  trip,               \* where the TrolleyController is in handling a request
  log                 \* what the handling of the latest request did, in order

vars == <<current_node, pc, op, result, expected_uid, last_command_sent,
          turn_command, elapsed, sent, reported, iter, cnt, flags, carts, merge,
          processing, trip, log>>

\* the state of the TrolleyController
TripVars == <<processing, trip, log>>

NoIter == [loop |-> "none", kind |-> "none", sensors |-> <<>>,
           line_state |-> None, uid |-> NoUid, cmds |-> <<>>]
NoCnt == [iters |-> 0, sends |-> 0, repeats |-> 0]

(* ---------------- LineFollower ---------------- *)
\* truth value of a sensor bit in a Python condition
Truthy(bit) == bit # 0

\* get_state without its last line: a pattern no branch takes returns None
get_state_without_default(left_sensor, center_sensor, right_sensor) ==
  IF Truthy(left_sensor) /\ ~Truthy(center_sensor) /\ Truthy(right_sensor)
    THEN LINE_CENTERED
  ELSE IF Truthy(left_sensor) /\ ~Truthy(center_sensor) /\ ~Truthy(right_sensor)
    THEN LINE_SLIGHT_LEFT
  ELSE IF ~Truthy(left_sensor) /\ ~Truthy(center_sensor) /\ Truthy(right_sensor)
    THEN LINE_SLIGHT_RIGHT
  ELSE IF ~Truthy(left_sensor) /\ ~Truthy(center_sensor) /\ ~Truthy(right_sensor)
    THEN LINE_CENTERED
  ELSE IF Truthy(left_sensor) /\ ~Truthy(right_sensor)
    THEN LINE_SLIGHT_LEFT
  ELSE None

get_state(left_sensor, center_sensor, right_sensor) ==
  IF Truthy(left_sensor) /\ ~Truthy(center_sensor) /\ Truthy(right_sensor)
    THEN LINE_CENTERED
  ELSE IF Truthy(left_sensor) /\ ~Truthy(center_sensor) /\ ~Truthy(right_sensor)
    THEN LINE_SLIGHT_LEFT
  ELSE IF ~Truthy(left_sensor) /\ ~Truthy(center_sensor) /\ Truthy(right_sensor)
    THEN LINE_SLIGHT_RIGHT
  ELSE IF ~Truthy(left_sensor) /\ ~Truthy(center_sensor) /\ ~Truthy(right_sensor)
    THEN LINE_CENTERED
  ELSE IF ~Truthy(left_sensor) /\ Truthy(left_sensor) /\ Truthy(left_sensor)
    THEN LINE_SLIGHT_RIGHT
  ELSE IF Truthy(left_sensor) /\ Truthy(left_sensor) /\ ~Truthy(right_sensor)
    THEN LINE_SLIGHT_LEFT
  ELSE LINE_CENTERED

(* ---------------- HardwareInterface ---------------- *)
\* read_ir_sensors: the three bits, or (1,1,1) when the GPIO read raises
read_ir_sensors(gpio) == IF gpio = <<>> THEN <<1, 1, 1>> ELSE gpio

(* ---------------- FirebaseComm ---------------- *)
\* get_expected_uid: the stored UID lower-cased, None when missing or on error
get_expected_uid(answer) == IF answer = NoUid THEN NoUid ELSE Lower(answer)

(* ---------------- Navigator ---------------- *)
get_turn_for_transition(start_node, end_node) ==
  IF start_node = "home" /\ StartsWith(end_node, "RFJ") THEN None
  ELSE IF StartsWith(start_node, "RFJ") /\ StartsWith(end_node, "pdt") THEN CMD_RIGHT
  ELSE IF StartsWith(start_node, "RBJ") /\ StartsWith(end_node, "RFJ") THEN CMD_RIGHT
  ELSE IF StartsWith(start_node, "RBJ") /\ StartsWith(end_node, "RBJ") THEN CMD_LEFT
  ELSE IF StartsWith(start_node, "RFJ") /\ end_node = "home" THEN CMD_RIGHT
  ELSE None

Init ==
  /\ current_node = "home"
  /\ pc = "idle"
  /\ op = [name |-> "none", dest |-> None, start |-> "home", answer |-> NoUid]
  /\ result = "none"
  /\ expected_uid = NoUid
  /\ last_command_sent = None
  /\ turn_command = None
  /\ elapsed = 0
  /\ sent = <<>>
  /\ reported = <<>>
  /\ iter = NoIter
  /\ cnt = NoCnt
  /\ flags = [confirmed |-> FALSE, homeConfirmed |-> FALSE]
  /\ carts = [r \in RequestIds |-> EmptyCart]
  /\ merge = NoMerge
  /\ processing = [r \in HandlerIds |-> FALSE]
  /\ trip = NoTrip
  /\ log = <<>>

\* set_current_position(node_name)
set_current_position(node_name) ==
  /\ UNCHANGED <<flags, carts, merge, processing, trip, log>>
  /\ pc = "idle"
  /\ op' = [name |-> "set_current_position", dest |-> node_name,
            start |-> current_node, answer |-> NoUid]
  /\ current_node' = IF node_name \in NodeNames \/ node_name = "home"
                       THEN node_name ELSE current_node
  /\ result' = "none"
  /\ sent' = <<>>
  /\ reported' = <<>>
  /\ iter' = NoIter
  /\ cnt' = NoCnt
  /\ UNCHANGED <<pc, expected_uid, last_command_sent, turn_command, elapsed>>

\* the clock does not advance over an iteration
ClockStalls(ticks) == ticks

\* lines 245, 317, 385, 443, 469: the sleep that ends a loop iteration
Advance(ticks) == ticks + 1

\* the first sensor read follows the turn command at once
NoInitialTurnDelay(start) == start

\* lines 367-369: time.sleep(1.5) between the turn command and the loop, on a
\* clock that reads start when the command is sent
InitialTurnDelay(start) == start + TurnSettleTicks

\* the wrong-tag branch sends nothing
WrongTagSendsNothing == <<>>

\* lines 438-444: what navigate_to_node writes to the ESP32 on a wrong tag
WrongTagCommands == <<CMD_FORWARD>>

\* the timeout exit sends nothing
TimeoutSendsNothing == <<>>

\* line 473: what navigate_to_node writes to the ESP32 when its loop times out
NavTimeoutCommands == <<CMD_STOP>>

\* the turn timeout reported as a navigation timeout
TurnTimeoutAsNavTimeout(command) == Status("error:nav_timeout", command)

\* line 390: the status of a turn that timed out
TurnTimeoutStatus(command) == Status("error:turn_timeout", command)

\* lines 379-383: what execute_simple_turn writes to the ESP32 when the turn ends
TurnCompletionCommands == <<CMD_STOP>>

\* the no-op check left out
NeverAtDestination(node, destination_node_name) == FALSE

\* line 397: destination is where the trolley already is
AlreadyAtDestination(node, destination_node_name) == node = destination_node_name

\* the missing-UID check left out
UidNeverMissing(uid) == FALSE

\* lines 285, 406: expected_uid is None
UidMissing(uid) == uid = NoUid

\* any tag read counts as the arrival
AnyTagMatches(received_uid, expected) == received_uid # NoUid

\* lines 303, 430: received_uid == expected_uid
UidMatch(received_uid, expected) == received_uid = expected

\* the required command is sent in every iteration
CommandAlwaysSent(required_command, last) == TRUE

\* line 463: required_command != last_command_sent
CommandChanged(required_command, last) == required_command # last

\* the arrival branch resumes motion as the wrong-tag branch does
ArrivalResumesForward == <<CMD_FORWARD>>

\* lines 431-437: what navigate_to_node writes to the ESP32 on a UID match
ArrivalCommands == <<>>

\* lines 304-309: what reverse_until_node writes to the ESP32 on a UID match
ReverseArrivalCommands == <<CMD_STOP>>

ReverseResumesForward == <<CMD_FORWARD>>
\* lines 311-315: what reverse_until_node writes on a tag that is not the
\* destination's
ReverseResumeCommands == <<CMD_BACKWARD>>

\* line 378: the reading that ends a turn
TurnStopCondition(left, center, right) == left = 1 \/ center = 1 \/ right = 0

\* lines 452-459: the command the line state asks for
RequiredCommand(line_state, last) ==
  IF line_state = LINE_CENTERED THEN CMD_FORWARD
  ELSE IF line_state = LINE_SLIGHT_LEFT THEN CMD_SLIGHT_RIGHT
  ELSE IF line_state = LINE_SLIGHT_RIGHT THEN CMD_SLIGHT_LEFT
  ELSE last

\* tags whose UID a loop may read on the way: the destination's and others
TagsOnTheWay == {op.dest, op.start, "home"}

\* navigate_to_node(destination_node_name, request_id), up to its first loop;
\* answer is what the registry delivers for the destination
navigate_to_node(destination_node_name, answer) ==
  /\ UNCHANGED <<flags, carts, merge>>
  /\ pc = "idle"
  /\ op' = [name |-> "navigate_to_node", dest |-> destination_node_name,
            start |-> current_node, answer |-> answer]
  /\ iter' = NoIter
  /\ cnt' = NoCnt
  /\ UNCHANGED current_node
  /\ IF AlreadyAtDestination(current_node, destination_node_name)
       THEN /\ result' = "True"
            /\ pc' = "idle"
            /\ elapsed' = 0
            /\ sent' = <<>>
            /\ reported' = <<>>
            /\ expected_uid' = NoUid
            /\ last_command_sent' = None
            /\ turn_command' = None
       ELSE LET uid == get_expected_uid(answer)
                initial_turn ==
                  get_turn_for_transition(current_node, destination_node_name)
            IN /\ expected_uid' = uid
               /\ IF UidMissing(uid)
                    THEN /\ reported' = <<Status("moving_to", destination_node_name),
                                          Status("error:no_uid", destination_node_name)>>
                         /\ result' = "False"
                         /\ pc' = "idle"
                         /\ elapsed' = 0
                         /\ sent' = <<>>
                         /\ last_command_sent' = None
                         /\ turn_command' = None
                    ELSE /\ reported' = <<Status("moving_to", destination_node_name)>>
                         /\ result' = "none"
                         /\ IF initial_turn # None
                              THEN /\ sent' = <<initial_turn>>
                                   /\ turn_command' = initial_turn
                                   /\ last_command_sent' = None
                                   /\ pc' = "turn"
                                   /\ elapsed' = InitialTurnDelay(0)
                              ELSE /\ sent' = <<CMD_FORWARD>>
                                   /\ turn_command' = None
                                   /\ last_command_sent' = CMD_FORWARD
                                   /\ pc' = "nav"
                                   /\ elapsed' = 0

\* execute_simple_turn(turn_command, request_id) called on its own, up to its loop
execute_simple_turn(command) ==
  /\ UNCHANGED <<flags, carts, merge>>
  /\ pc = "idle"
  /\ op' = [name |-> "execute_simple_turn", dest |-> None, start |-> current_node,
            answer |-> NoUid]
  /\ iter' = NoIter
  /\ cnt' = NoCnt
  /\ elapsed' = InitialTurnDelay(0)
  /\ sent' = <<command>>
  /\ reported' = <<>>
  /\ turn_command' = command
  /\ result' = "none"
  /\ pc' = "turn"
  /\ expected_uid' = NoUid
  /\ last_command_sent' = None
  /\ UNCHANGED current_node

\* one iteration of the loop of execute_simple_turn (lines 371-385); when the
\* turn was navigate_to_node's initial turn, the caller goes on to line 415
turn_iteration(gpio) ==
  /\ UNCHANGED <<flags, carts, merge, processing, trip, log>>
  /\ pc = "turn"
  /\ elapsed < TurnTimeoutTicks
  /\ LET sensors == read_ir_sensors(gpio)
     IN /\ iter' = [loop |-> "turn", kind |-> "poll", sensors |-> sensors,
                    line_state |-> None, uid |-> NoUid,
                    cmds |-> IF TurnStopCondition(sensors[1], sensors[2], sensors[3])
                               THEN TurnCompletionCommands ELSE <<>>]
        /\ IF TurnStopCondition(sensors[1], sensors[2], sensors[3])
             THEN IF op.name = "navigate_to_node"
                    THEN /\ sent' = sent \o TurnCompletionCommands \o <<CMD_FORWARD>>
                         /\ last_command_sent' = CMD_FORWARD
                         /\ elapsed' = 0
                         /\ pc' = "nav"
                         /\ result' = "none"
                    ELSE /\ sent' = sent \o TurnCompletionCommands
                         /\ pc' = "idle"
                         /\ result' = "True"
                         /\ UNCHANGED <<last_command_sent, elapsed>>
             ELSE /\ elapsed' = Advance(elapsed)
                  /\ UNCHANGED <<sent, pc, result, last_command_sent>>
  /\ UNCHANGED <<current_node, op, expected_uid, turn_command, reported, cnt>>

\* the loop of execute_simple_turn ends by turn_timeout (lines 387-391); the
\* navigate_to_node that asked for the turn returns False (line 414)
turn_timeout ==
  /\ UNCHANGED <<flags, carts, merge, processing, trip, log>>
  /\ pc = "turn"
  /\ elapsed >= TurnTimeoutTicks
  /\ sent' = Append(sent, CMD_STOP)
  /\ reported' = Append(reported, TurnTimeoutStatus(turn_command))
  /\ result' = "False"
  /\ pc' = "idle"
  /\ UNCHANGED <<current_node, op, expected_uid, last_command_sent, turn_command,
                 elapsed, iter, cnt>>

\* one iteration of the loop of navigate_to_node (lines 423-469)
navigate_iteration(serial_line, gpio) ==
  /\ UNCHANGED <<flags, carts, merge, processing, trip, log>>
  /\ pc = "nav"
  /\ elapsed < NavTimeoutTicks
  /\ IF serial_line.kind = "rfid"
       THEN LET received_uid == Lower(serial_line.uid)
            IN IF UidMatch(received_uid, expected_uid)
                 THEN /\ last_command_sent' = CMD_STOP
                      /\ current_node' = op.dest
                      /\ reported' = Append(reported, Status("arrived_at", op.dest))
                      /\ sent' = sent \o ArrivalCommands
                      /\ result' = "True"
                      /\ pc' = "idle"
                      /\ iter' = [loop |-> "nav", kind |-> "match", sensors |-> <<>>,
                                  line_state |-> None, uid |-> serial_line.uid,
                                  cmds |-> ArrivalCommands]
                      /\ UNCHANGED <<elapsed, cnt>>
                 ELSE /\ sent' = sent \o WrongTagCommands
                      /\ last_command_sent' = CMD_FORWARD
                      /\ elapsed' = Advance(elapsed)
                      /\ iter' = [loop |-> "nav", kind |-> "mismatch", sensors |-> <<>>,
                                  line_state |-> None, uid |-> serial_line.uid,
                                  cmds |-> WrongTagCommands]
                      /\ UNCHANGED <<current_node, reported, result, pc, cnt>>
       ELSE LET sensors == read_ir_sensors(gpio)
                line_state == get_state(sensors[1], sensors[2], sensors[3])
                required_command == RequiredCommand(line_state, last_command_sent)
                sends == CommandChanged(required_command, last_command_sent)
                repeat == /\ iter.loop = "nav"
                          /\ iter.kind = "line"
                          /\ iter.line_state = line_state
            IN /\ sent' = IF sends THEN Append(sent, required_command) ELSE sent
               /\ last_command_sent' = IF sends THEN required_command
                                                ELSE last_command_sent
               /\ elapsed' = Advance(elapsed)
               /\ iter' = [loop |-> "nav", kind |-> "line", sensors |-> sensors,
                           line_state |-> line_state, uid |-> NoUid,
                           cmds |-> IF sends THEN <<required_command>> ELSE <<>>]
               /\ cnt' = [iters |-> cnt.iters + 1,
                          sends |-> cnt.sends + (IF sends THEN 1 ELSE 0),
                          repeats |-> cnt.repeats + (IF repeat THEN 1 ELSE 0)]
               /\ UNCHANGED <<current_node, reported, result, pc>>
  /\ UNCHANGED <<op, expected_uid, turn_command>>

\* the loop of navigate_to_node ends by navigation_timeout (lines 471-475)
navigate_timeout ==
  /\ UNCHANGED <<flags, carts, merge, processing, trip, log>>
  /\ pc = "nav"
  /\ elapsed >= NavTimeoutTicks
  /\ sent' = sent \o NavTimeoutCommands
  /\ reported' = Append(reported, Status("error:nav_timeout", op.dest))
  /\ result' = "False"
  /\ pc' = "idle"
  /\ UNCHANGED <<current_node, op, expected_uid, last_command_sent, turn_command,
                 elapsed, iter, cnt>>

\* reverse_until_node(destination_node_name, request_id), up to its loop
reverse_until_node(destination_node_name, answer) ==
  /\ UNCHANGED <<flags, carts, merge>>
  /\ pc = "idle"
  /\ op' = [name |-> "reverse_until_node", dest |-> destination_node_name,
            start |-> current_node, answer |-> answer]
  /\ iter' = NoIter
  /\ cnt' = NoCnt
  /\ elapsed' = 0
  /\ last_command_sent' = None
  /\ turn_command' = None
  /\ UNCHANGED current_node
  /\ IF current_node = "home" \/ destination_node_name = "home"
       THEN /\ result' = "False"
            /\ pc' = "idle"
            /\ sent' = <<>>
            /\ reported' = <<>>
            /\ expected_uid' = NoUid
       ELSE LET uid == get_expected_uid(answer)
            IN /\ expected_uid' = uid
               /\ IF UidMissing(uid)
                    THEN /\ reported' = <<Status("reversing_to", destination_node_name),
                                          Status("error:no_uid", destination_node_name)>>
                         /\ result' = "False"
                         /\ pc' = "idle"
                         /\ sent' = <<>>
                    ELSE /\ reported' = <<Status("reversing_to", destination_node_name)>>
                         /\ result' = "none"
                         /\ sent' = <<CMD_BACKWARD>>
                         /\ pc' = "rev"

\* one iteration of the loop of reverse_until_node (lines 295-317)
reverse_iteration(serial_line) ==
  /\ UNCHANGED <<flags, carts, merge, processing, trip, log>>
  /\ pc = "rev"
  /\ elapsed < NavTimeoutTicks
  /\ IF serial_line.kind = "rfid"
       THEN LET received_uid == Lower(serial_line.uid)
            IN IF UidMatch(received_uid, expected_uid)
                 THEN /\ sent' = sent \o ReverseArrivalCommands
                      /\ current_node' = op.dest
                      /\ reported' = Append(reported, Status("arrived_at", op.dest))
                      /\ result' = "True"
                      /\ pc' = "idle"
                      /\ iter' = [loop |-> "rev", kind |-> "match", sensors |-> <<>>,
                                  line_state |-> None, uid |-> serial_line.uid,
                                  cmds |-> ReverseArrivalCommands]
                      /\ UNCHANGED elapsed
                 ELSE /\ sent' = sent \o ReverseResumeCommands
                      /\ elapsed' = Advance(elapsed)
                      /\ iter' = [loop |-> "rev", kind |-> "mismatch", sensors |-> <<>>,
                                  line_state |-> None, uid |-> serial_line.uid,
                                  cmds |-> ReverseResumeCommands]
                      /\ UNCHANGED <<current_node, reported, result, pc>>
       ELSE /\ elapsed' = Advance(elapsed)
            /\ iter' = [loop |-> "rev", kind |-> "quiet", sensors |-> <<>>,
                        line_state |-> None, uid |-> NoUid, cmds |-> <<>>]
            /\ UNCHANGED <<current_node, reported, result, pc, sent>>
  /\ UNCHANGED <<op, expected_uid, last_command_sent, turn_command, cnt>>

ReverseTimeoutCoasts == <<>>
\* line 321: what reverse_until_node writes to the ESP32 when its loop times out
ReverseTimeoutCommands == <<CMD_STOP>>

\* the loop of reverse_until_node ends by navigation_timeout (lines 319-323)
reverse_timeout ==
  /\ UNCHANGED <<flags, carts, merge, processing, trip, log>>
  /\ pc = "rev"
  /\ elapsed >= NavTimeoutTicks
  /\ sent' = sent \o ReverseTimeoutCommands
  /\ reported' = Append(reported, Status("error:reverse_timeout", op.dest))
  /\ result' = "False"
  /\ pc' = "idle"
  /\ UNCHANGED <<current_node, op, expected_uid, last_command_sent, turn_command,
                 elapsed, iter, cnt>>

Next ==
  \/ \E n \in SetNames : set_current_position(n)
  \/ \E d \in CallNodes : \E a \in RegistryAnswers(d) :
       navigate_to_node(d, a) /\ UNCHANGED TripVars
  \/ \E d \in CallNodes : \E a \in RegistryAnswers(d) :
       reverse_until_node(d, a) /\ UNCHANGED TripVars
  \/ \E c \in TurnCommands : execute_simple_turn(c) /\ UNCHANGED TripVars
  \/ \E g \in GpioOutcomes : turn_iteration(g)
  \/ turn_timeout
  \/ \E l \in SerialLines(TagsOnTheWay) : \E g \in GpioOutcomes : navigate_iteration(l, g)
  \/ navigate_timeout
  \/ \E l \in SerialLines(TagsOnTheWay) : reverse_iteration(l)
  \/ reverse_timeout

Spec == Init /\ [][Next]_vars

(* ---------------- FirebaseComm: confirmation waits ---------------- *)
\* the flag a wait polls: /trolleyConfirmations/<request>/confirmed or homeConfirmed
FlagPath == IF op.name = "wait_for_confirmation" THEN "confirmed" ELSE "homeConfirmed"
WaitNames == {"wait_for_confirmation", "wait_for_home_confirmation"}
\* what flag_ref.get() does: delivers the stored value, or raises
GetOutcomes == {"value", "error"}

\* wait_for_confirmation / wait_for_home_confirmation, up to the loop of
\* _wait_for_flag (lines 236-240, 248-257)
wait_for_flag(name) ==
  /\ UNCHANGED <<carts, merge>>
  /\ pc = "idle"
  /\ op' = [name |-> name, dest |-> None, start |-> current_node, answer |-> NoUid]
  /\ pc' = "wait"
  /\ result' = "none"
  /\ elapsed' = 0
  /\ sent' = <<>>
  /\ reported' = <<>>
  /\ iter' = NoIter
  /\ cnt' = NoCnt
  /\ UNCHANGED <<current_node, expected_uid, last_command_sent, turn_command, flags>>

ResetSkipped(value, set_ok) == value
\* line 242: flag_ref.set(False) goes through, or raises and the flag stays
FlagAfterReset(value, set_ok) == IF set_ok THEN FALSE ELSE value

\* one iteration of the loop of _wait_for_flag (lines 240-245); set_ok tells
\* whether flag_ref.set(False) goes through
wait_iteration(get_outcome, set_ok) ==
  /\ UNCHANGED <<carts, merge, processing, trip, log>>
  /\ pc = "wait"
  /\ elapsed < WaitTimeoutTicks
  /\ IF get_outcome = "error"
       THEN /\ result' = "False"
            /\ pc' = "idle"
            /\ UNCHANGED <<flags, elapsed, iter>>
       ELSE IF flags[FlagPath] = TRUE
              THEN /\ flags' = [flags EXCEPT ![FlagPath] = FlagAfterReset(TRUE, set_ok)]
                   /\ iter' = [NoIter EXCEPT !.loop = "wait",
                                             !.kind = IF set_ok THEN "reset"
                                                                ELSE "reset_failed"]
                   /\ result' = "True"
                   /\ pc' = "idle"
                   /\ UNCHANGED elapsed
              ELSE /\ elapsed' = Advance(elapsed)
                   /\ UNCHANGED <<flags, result, pc, iter>>
  /\ UNCHANGED <<current_node, op, expected_uid, last_command_sent, turn_command,
                 sent, reported, cnt>>

\* the loop of _wait_for_flag ends by its timeout (line 246)
wait_timeout ==
  /\ UNCHANGED <<carts, merge, processing, trip, log>>
  /\ pc = "wait"
  /\ elapsed >= WaitTimeoutTicks
  /\ result' = "False"
  /\ pc' = "idle"
  /\ UNCHANGED <<current_node, op, expected_uid, last_command_sent, turn_command,
                 elapsed, sent, reported, iter, cnt, flags>>

\* the user's app writes true to a confirmation flag
user_confirms(path) ==
  /\ UNCHANGED <<carts, merge, processing, trip, log>>
  /\ flags[path] = FALSE
  /\ flags' = [flags EXCEPT ![path] = TRUE]
  /\ UNCHANGED <<current_node, pc, op, result, expected_uid, last_command_sent,
                 turn_command, elapsed, sent, reported, iter, cnt>>

WaitNext ==
  \/ \E n \in WaitNames : wait_for_flag(n) /\ UNCHANGED TripVars
  \/ \E o \in GetOutcomes : \E ok \in BOOLEAN : wait_iteration(o, ok)
  \/ wait_timeout
  \/ \E path \in DOMAIN flags : user_confirms(path)

\* the steps of the controller's one thread inside a blocking operation
Running ==
  \/ \E g \in GpioOutcomes : turn_iteration(g)
  \/ turn_timeout
  \/ \E l \in SerialLines(TagsOnTheWay) : \E g \in GpioOutcomes : navigate_iteration(l, g)
  \/ navigate_timeout
  \/ \E l \in SerialLines(TagsOnTheWay) : reverse_iteration(l)
  \/ reverse_timeout
  \/ \E o \in GetOutcomes : \E ok \in BOOLEAN : wait_iteration(o, ok)
  \/ wait_timeout

BlockingNext == Next \/ WaitNext

\* the thread keeps running: a blocking operation that can take a step takes one
FairSpec == Init /\ [][BlockingNext]_vars /\ WF_vars(Running)

(* ---------------- TrolleyController: the cart merge ---------------- *)
\* process_shopping_list(request_id, request_data) up to the cart write
\* (lines 613-627); read_ok and write_ok tell whether the store's read and
\* write go through
process_shopping_list(request_id, new_cart_items, read_ok, write_ok) ==
  /\ pc = "idle"
  /\ LET existing_cart == get_cart(carts[request_id], read_ok)
         final_cart == FinalCart(MergeInto(existing_cart, new_cart_items))
     IN /\ \A p \in DOMAIN final_cart : final_cart[p] <= MaxQty
        /\ carts' = IF write_ok THEN [carts EXCEPT ![request_id] = final_cart]
                                ELSE carts
        /\ merge' = [request_id |-> request_id, stored |-> carts[request_id],
                     existing |-> existing_cart, delta |-> new_cart_items,
                     final |-> final_cart, read_ok |-> read_ok,
                     write_ok |-> write_ok]
  /\ op' = [name |-> "process_shopping_list", dest |-> None, start |-> current_node,
            answer |-> NoUid]
  /\ reported' = <<Status("processing_list", None)>>
  /\ sent' = <<>>
  /\ result' = "none"
  /\ UNCHANGED <<current_node, pc, expected_uid, last_command_sent, turn_command,
                 elapsed, iter, cnt, flags>>

\* how the store answers during one call: both operations go through, or the
\* read raises, or the write raises
StoreOutcomes ==
  {[read_ok |-> TRUE, write_ok |-> TRUE], [read_ok |-> FALSE, write_ok |-> TRUE],
   [read_ok |-> TRUE, write_ok |-> FALSE]}

CartNext ==
  \E request_id \in RequestIds : \E new_cart_items \in Deltas :
    \E io \in StoreOutcomes :
      /\ process_shopping_list(request_id, new_cart_items, io.read_ok, io.write_ok)
      /\ UNCHANGED TripVars

CartSpec == Init /\ [][CartNext]_vars

(* ---------------- TrolleyController: the trip ---------------- *)
\* A step of the controller runs from the return of one blocking call
\* (navigation, turn, reversal, confirmation wait) to the start of the next
\* one, or to the end of the handler.  It is described by what it writes and
\* sends (events), the call it starts (call), and where the controller is then.
Call(do, arg) == [do |-> do, arg |-> arg]
Plan(events, call, next_trip) == [events |-> events, call |-> call, trip |-> next_trip]

\* the cart lists of the requests
TripLists ==
  { [p \in {"pdt4"} |-> IntValue(2)],
    [p \in {"pdt1", "pdt2", "pdt7", "pdt99"} |-> IntValue(MaxQty)],
    [p \in {"pdt1", "pdt4", "pdt7"} |-> IntValue(MaxQty)],
    [p \in {"pdt99"} |-> IntValue(MaxQty)],
    [p \in {"pdt4"} |-> IntValue(0 - MaxQty)] }
\* request data: {'action': 'home'}, {'cart': {...}}, anything else
RequestKinds == {"home", "cart", "invalid"}

\* the handler's finally clause (lines 593-596)
HandlerEnds(events) ==
  Plan(events, Call("delete_processing_status", None), NoTrip)

\* process_request / process_shopping_list after _move_trolley_to_home has
\* returned: line 603 raises NameError (success is not defined), which the
\* handler catches (lines 588-592); process_shopping_list just returns
AfterHome(events, t) ==
  LET returned == events \o <<Event("end", "_move_trolley_to_home", current_node)>>
  IN IF t.cont = "action_home"
       THEN HandlerEnds(returned \o <<Event("raise", "NameError", None),
                                      StatusEvent("error:critical_processing_exception", None),
                                      Event("cmd", CMD_STOP, None)>>)
       ELSE HandlerEnds(returned)

ArrivalAlwaysReported(events, path_ok, t) ==
  AfterHome(events \o <<StatusEvent("arrived_at", "home")>>, t)
\* _move_trolley_to_home, its final check (lines 543-548)
HomeFinal(events, path_ok, t) ==
  IF path_ok /\ current_node = "home"
    THEN AfterHome(events \o <<StatusEvent("arrived_at", "home")>>, t)
    ELSE AfterHome(events, t)

\* _move_trolley_to_home, step 3 (lines 537-542), path_ok being true
HomeStep3(events, t) ==
  IF current_node # "home"
    THEN Plan(events, Call("navigate_to_node", "home"), [t EXCEPT !.at = "home_nav"])
    ELSE HomeFinal(events, TRUE, t)

\* _move_trolley_to_home, step 2 (lines 530-536), path_ok being true
HomeStep2(events, t) ==
  IF StartsWith(current_node, "RFJ")
    THEN Plan(events, Call("execute_simple_turn", CMD_RIGHT),
              [t EXCEPT !.at = "home_turn"])
    ELSE HomeStep3(events, t)

\* _move_trolley_to_home up to its first blocking call (lines 491-529)
move_trolley_to_home(events, t) ==
  LET started == events \o <<Event("call", "_move_trolley_to_home", None),
                             StatusEvent("moving_to", "home")>>
  IN IF current_node = "home"
       THEN AfterHome(started \o <<StatusEvent("arrived_at", "home")>>, t)
       ELSE IF StartsWith(current_node, "RBJ")
         THEN Plan(started, Call("reverse_until_node", target_rfj(current_node)),
                   [t EXCEPT !.at = "home_aisle"])
       ELSE IF StartsWith(current_node, "pdt")
         THEN Plan(started, Call("navigate_to_node", target_rfj(current_node)),
                   [t EXCEPT !.at = "home_aisle"])
       ELSE HomeStep2(started, t)

\* process_shopping_list after the rows (lines 655-658), navigation_ok being true
RowsDone(events, t) ==
  Plan(events \o <<StatusEvent("waiting_for_home_confirmation", None)>>,
       Call("wait_for_home_confirmation", None), [t EXCEPT !.at = "home_wait"])

\* the loop of lines 648-654 enters _process_row (lines 668-673)
StartRow(events, t, row_num) ==
  Plan(events \o <<StatusEvent("processing_row", RowText(row_num))>>,
       Call("navigate_to_node", row_front_junction(row_num)),
       [t EXCEPT !.at = "row_front", !.row_num = row_num,
                 !.is_last_row = is_last_row_to_process(row_num, t.highest),
                 !.todo = <<>>, !.product = None])

RowFailureIgnored(events, t) == RowsDone(events, t)
\* _process_row returned False: the loop of lines 648-654 breaks and
\* process_shopping_list returns by line 666
RowReturnsFalse(events, t) == HandlerEnds(events)

\* _process_row returned True (line 704): the loop of lines 648-654 goes on
RowReturnsTrue(events, t) ==
  LET next_row == NextRow(t.rows, t.row_num)
  IN IF next_row # 0 THEN StartRow(events, t, next_row) ELSE RowsDone(events, t)

RowLeftAfterFirstProduct(events, t, todo) ==
  IF todo # <<>> /\ t.product = None
    THEN Plan(events \o <<StatusEvent("moving_to_product", Head(todo))>>,
              Call("navigate_to_node", Head(todo)),
              [t EXCEPT !.at = "product_nav", !.product = Head(todo),
                        !.todo = Tail(todo)])
    ELSE Plan(events, Call("navigate_to_node", row_back_junction(t.row_num)),
              [t EXCEPT !.at = "row_back", !.product = None])
\* the loop over the products goes to the next product (lines 682-687), or is
\* over and the row is left by its back junction (lines 697-698)
NextProduct(events, t, todo) ==
  IF todo # <<>>
    THEN Plan(events \o <<StatusEvent("moving_to_product", Head(todo))>>,
              Call("navigate_to_node", Head(todo)),
              [t EXCEPT !.at = "product_nav", !.product = Head(todo),
                        !.todo = Tail(todo)])
    ELSE Plan(events, Call("navigate_to_node", row_back_junction(t.row_num)),
              [t EXCEPT !.at = "row_back", !.product = None])


DeleteSkipped(flag, delete_ok) == flag
\* the processing flag after delete_processing_status (lines 208-210)
FlagAfterDelete(flag, delete_ok) == IF delete_ok THEN FALSE ELSE flag

\* the call of a plan starts; its inputs are drawn here.  flag is the
\* processing flag of the request as the step leaves it before the call,
\* delete_ok tells whether the delete of the flag goes through
Starts(call, request_id, flag, delete_ok) ==
  CASE call.do = "navigate_to_node" ->
         /\ \E a \in {Uid(call.arg, TRUE), NoUid} :
              /\ (call.arg \notin NodeNames => a = NoUid)
              /\ navigate_to_node(call.arg, a)
         /\ processing' = [processing EXCEPT ![request_id] = flag]
    [] call.do = "reverse_until_node" ->
         /\ \E a \in {Uid(call.arg, TRUE), NoUid} :
              /\ (call.arg \notin NodeNames => a = NoUid)
              /\ reverse_until_node(call.arg, a)
         /\ processing' = [processing EXCEPT ![request_id] = flag]
    [] call.do = "execute_simple_turn" ->
         /\ execute_simple_turn(call.arg)
         /\ processing' = [processing EXCEPT ![request_id] = flag]
    [] call.do \in WaitNames ->
         /\ wait_for_flag(call.do)
         /\ processing' = [processing EXCEPT ![request_id] = flag]
    [] call.do = "delete_processing_status" ->
         \* delete_processing_status (lines 208-210): the delete goes through,
         \* or raises and the exception is swallowed
         /\ processing' = [processing EXCEPT
                            ![request_id] = FlagAfterDelete(flag, delete_ok)]
         /\ UNCHANGED <<current_node, pc, op, result, expected_uid,
                        last_command_sent, turn_command, elapsed, sent, reported,
                        iter, cnt, flags, carts, merge>>

\* what the call that just returned reported, and its return value
CallReturn == StatusEvents(reported) \o <<Event("ret", result, current_node)>>

\* the controller takes the step of a plan; before is the log up to the step
Takes(before, plan, request_id, flag) ==
  \E delete_ok \in BOOLEAN :
    /\ plan.call.do # "delete_processing_status" => delete_ok
    /\ log' = before \o plan.events
                 \o <<Event("call", plan.call.do, plan.call.arg)>>
                 \o IF delete_ok THEN <<>>
                    ELSE <<Event("raise", "delete_processing_status", None)>>
    /\ trip' = plan.trip
    /\ Starts(plan.call, request_id, flag, delete_ok)

\* is_processing (lines 211-213): the stored flag, or False when the read raises
is_processing(flag, read_ok) == read_ok /\ flag

ListenerAlwaysFree == TRUE
\* the one listener registered by listen_for_requests (lines 199-204) hands
\* the next event to the callback when the callback has returned
ListenerFree == trip.at = "idle"

\* _handle_new_request_callback (lines 573-586) and process_request (lines
\* 599-610), up to the first blocking call of the request; read_ok tells
\* whether the read of the processing flag goes through
handle_new_request(kind, request_id, new_cart_items, read_ok) ==
  /\ ListenerFree
  /\ pc = "idle"
  /\ LET received == <<Event(IF read_ok THEN "request" ELSE "request_unread",
                             kind, current_node)>>
         flagged == received \o <<Event("call", "set_processing_status", request_id)>>
         t == [NoTrip EXCEPT !.request = request_id]
     IN IF is_processing(processing[request_id], read_ok)
          THEN /\ log' = received \o <<Event("ignored", kind, request_id)>>
               /\ UNCHANGED <<current_node, pc, op, result, expected_uid,
                              last_command_sent, turn_command, elapsed, sent,
                              reported, iter, cnt, flags, carts, merge, processing,
                              trip>>
          ELSE CASE kind = "home" ->
                      Takes(flagged,
                            move_trolley_to_home(<<>>, [t EXCEPT !.cont = "action_home"]),
                            request_id, TRUE)
                 [] kind = "cart" ->
                      /\ process_shopping_list(request_id, new_cart_items, TRUE, TRUE)
                      /\ processing' = [processing EXCEPT ![request_id] = TRUE]
                      /\ trip' = [t EXCEPT !.at = "merged", !.cont = "list"]
                      /\ log' = flagged \o <<Event("call", "process_shopping_list", None)>>
                 [] OTHER ->
                      Takes(flagged,
                            HandlerEnds(<<StatusEvent("error:invalid_request_format", None)>>),
                            request_id, TRUE)

EmptyCartAsksFirst(events, t) ==
  RowsDone(events \o <<StatusEvent("completed_empty_cart", None)>>, t)
\* process_shopping_list when no product of the cart has a row (lines 641-645)
EmptyCartReturn(events, t) ==
  move_trolley_to_home(events \o <<StatusEvent("completed_empty_cart", None)>>,
                       [t EXCEPT !.cont = "empty_cart"])

\* process_shopping_list from the partition of the cart to its first
\* blocking call (lines 628-653)
after_merge ==
  /\ trip.at = "merged"
  /\ pc = "idle"
  /\ LET rows == products_by_row(merge.final)
         t == [trip EXCEPT !.rows = rows, !.highest = highest_row_with_items(rows)]
         events == StatusEvents(reported)
     IN Takes(log,
              IF valid_products_in_cart(merge.final) = <<>>
                THEN EmptyCartReturn(events, t)
                ELSE StartRow(events, t, NextRow(rows, 0)),
              trip.request, processing[trip.request])

\* _process_row after the navigation to the front junction (lines 673-680)
after_row_front ==
  /\ trip.at = "row_front"
  /\ pc = "idle"
  /\ Takes(log,
           IF result # "True"
             THEN RowReturnsFalse(CallReturn, trip)
             ELSE Plan(CallReturn \o <<Event("cmd", CMD_FORWARD, None),
                                       Event("cmd", CMD_STOP, None)>>,
                       Call("execute_simple_turn", CMD_RIGHT),
                       [trip EXCEPT !.at = "row_turn"]),
           trip.request, processing[trip.request])

\* _process_row after the turn into the aisle (lines 680-687)
after_row_turn ==
  /\ trip.at = "row_turn"
  /\ pc = "idle"
  /\ Takes(log,
           IF result # "True"
             THEN RowReturnsFalse(CallReturn, trip)
             ELSE NextProduct(CallReturn, trip,
                              sorted_product_list(trip.rows[trip.row_num])),
           trip.request, processing[trip.request])

\* _process_row after the navigation to a product (lines 687-690)
after_product_nav ==
  /\ trip.at = "product_nav"
  /\ pc = "idle"
  /\ Takes(log,
           IF result # "True"
             THEN RowReturnsFalse(CallReturn, trip)
             ELSE Plan(CallReturn \o <<StatusEvent("waiting_for_item", trip.product)>>,
                       Call("wait_for_confirmation", None),
                       [trip EXCEPT !.at = "item_wait"]),
           trip.request, processing[trip.request])

ItemAddedAnyway(events, t) ==
  NextProduct(events \o <<StatusEvent("item_added", t.product)>>, t, t.todo)
\* _process_row after the wait for the item's confirmation (lines 690-696)
ItemWaitReturned(events, t) ==
  IF result # "True"
    THEN HandlerEnds(events \o <<StatusEvent("error:item_confirmation_failed", t.product),
                                 Event("cmd", CMD_STOP, None)>>)
    ELSE NextProduct(events \o <<StatusEvent("item_added", t.product)>>, t, t.todo)

after_item_wait ==
  /\ trip.at = "item_wait"
  /\ pc = "idle"
  /\ Takes(log, ItemWaitReturned(CallReturn, trip), trip.request,
           processing[trip.request])

\* _process_row after the navigation to the back junction (lines 698-704)
after_row_back ==
  /\ trip.at = "row_back"
  /\ pc = "idle"
  /\ Takes(log,
           IF result # "True"
             THEN RowReturnsFalse(CallReturn, trip)
             ELSE IF ~trip.is_last_row
               THEN Plan(CallReturn, Call("execute_simple_turn", CMD_LEFT),
                         [trip EXCEPT !.at = "row_left"])
               ELSE RowReturnsTrue(CallReturn, trip),
           trip.request, processing[trip.request])

\* _process_row after the left turn at the back junction (lines 701-704)
after_row_left ==
  /\ trip.at = "row_left"
  /\ pc = "idle"
  /\ Takes(log,
           IF result # "True" THEN RowReturnsFalse(CallReturn, trip)
                              ELSE RowReturnsTrue(CallReturn, trip),
           trip.request, processing[trip.request])

HomeWaitIgnored(events, t) ==
  move_trolley_to_home(events \o <<StatusEvent("returning_home", None)>>,
                       [t EXCEPT !.cont = "confirmed"])
\* process_shopping_list after the wait for the home confirmation (lines 658-665)
HomeWaitReturned(events, t) ==
  IF result # "True"
    THEN HandlerEnds(events \o <<StatusEvent("error:home_confirmation_failed", None),
                                 Event("cmd", CMD_STOP, None)>>)
    ELSE move_trolley_to_home(events \o <<StatusEvent("returning_home", None)>>,
                              [t EXCEPT !.cont = "confirmed"])

after_home_wait ==
  /\ trip.at = "home_wait"
  /\ pc = "idle"
  /\ Takes(log, HomeWaitReturned(CallReturn, trip), trip.request,
           processing[trip.request])

\* _move_trolley_to_home after the move to the front junction (lines 510-529)
after_home_aisle ==
  /\ trip.at = "home_aisle"
  /\ pc = "idle"
  /\ Takes(log,
           IF result # "True" THEN HomeFinal(CallReturn, FALSE, trip)
                              ELSE HomeStep2(CallReturn, trip),
           trip.request, processing[trip.request])

\* _move_trolley_to_home after the right turn at the front junction (lines 533-536)
after_home_turn ==
  /\ trip.at = "home_turn"
  /\ pc = "idle"
  /\ Takes(log,
           IF result # "True" THEN HomeFinal(CallReturn, FALSE, trip)
                              ELSE HomeStep3(CallReturn, trip),
           trip.request, processing[trip.request])

\* _move_trolley_to_home after the navigation to home (lines 540-548)
after_home_nav ==
  /\ trip.at = "home_nav"
  /\ pc = "idle"
  /\ Takes(log, HomeFinal(CallReturn, result = "True", trip), trip.request,
           processing[trip.request])

\* what the serial port and the sensors deliver during a trip
TripLines == {NoLine, RfidLine(Uid(op.dest, TRUE)), RfidLine(Uid(op.start, TRUE))}
TripTurnReadings == {<<0, 0, 1>>, <<1, 0, 1>>}
TripLineReadings == {<<1, 0, 1>>}

\* the steps of the controller inside a blocking call of a trip
TripRunning ==
  \/ \E g \in TripTurnReadings : turn_iteration(g)
  \/ turn_timeout
  \/ \E l \in TripLines : \E g \in TripLineReadings : navigate_iteration(l, g)
  \/ navigate_timeout
  \/ \E l \in TripLines : reverse_iteration(l)
  \/ reverse_timeout
  \/ \E o \in GetOutcomes :
       /\ (o = "error" => flags[FlagPath] = FALSE)
       /\ wait_iteration(o, TRUE)
  \/ wait_timeout

\* the steps of the controller between two blocking calls
TripSteps ==
  \/ after_merge
  \/ after_row_front
  \/ after_row_turn
  \/ after_product_nav
  \/ after_item_wait
  \/ after_row_back
  \/ after_row_left
  \/ after_home_wait
  \/ after_home_aisle
  \/ after_home_turn
  \/ after_home_nav

\* the cart list of a request that carries none
NoList == [p \in {"pdt4"} |-> IntValue(2)]

\* the steps of the controller and of its user, the requests carrying the
\* cart lists of a given set and the request ids of a given set; reads tells
\* whether a read of the processing flag may raise
Handling(lists, ids, reads) ==
  \/ \E kind \in RequestKinds : \E request_id \in ids :
       \E new_cart_items \in lists \cup {NoList} : \E read_ok \in reads :
         /\ (kind # "cart" => new_cart_items = NoList)
         /\ (kind = "cart" => new_cart_items \in lists /\ request_id \in RequestIds)
         /\ (~read_ok => processing[request_id])
         /\ handle_new_request(kind, request_id, new_cart_items, read_ok)
  \/ TripSteps
  \/ TripRunning
  \/ /\ pc = "wait"
     /\ elapsed < WaitTimeoutTicks
     /\ user_confirms(FlagPath)

TripNext == Handling(TripLists, RequestIds, {TRUE})

TripSpec == Init /\ [][TripNext]_vars

\* the handler's thread keeps running: inside a blocking call and between two
\* blocking calls it takes its next step
TripFairSpec ==
  /\ Init
  /\ [][Handling({[p \in {"pdt1", "pdt4", "pdt7"} |-> IntValue(MaxQty)]},
                 RequestIds, {TRUE})]_vars
  /\ WF_vars(TripRunning)
  /\ WF_vars(TripSteps)

\* events with either request id, the read of the processing flag going
\* through or raising
GuardNext ==
  Handling({[p \in {"pdt1", "pdt4", "pdt7"} |-> IntValue(MaxQty)]}, HandlerIds, BOOLEAN)

GuardSpec == Init /\ [][GuardNext]_vars

(* ======================= properties ======================= *)

MotionCommands == {CMD_FORWARD, CMD_BACKWARD, CMD_LEFT, CMD_RIGHT,
                   CMD_SLIGHT_LEFT, CMD_SLIGHT_RIGHT}
LineStates == {LINE_CENTERED, LINE_SLIGHT_LEFT, LINE_SLIGHT_RIGHT, LINE_LOST}
VeerStates == {LINE_SLIGHT_LEFT, LINE_SLIGHT_RIGHT}

NavigationCall == op.name \in {"navigate_to_node", "reverse_until_node"}
Returned == pc = "idle" /\ result # "none"
LastOf(seq) == seq[Len(seq)]

\* the UID read is the expected one (hex digits compared without regard to case)
IsExpectedUid(uid) == uid # NoUid /\ uid.tag = expected_uid.tag
\* the latest iteration of the call read the expected UID
ReadExpectedUid == iter.loop \in {"nav", "rev"} /\ IsExpectedUid(iter.uid)
\* a step that is one iteration of the loop of navigate_to_node
NavIterationStep == pc = "nav" /\ elapsed < NavTimeoutTicks
\* the latest iteration was a line-correction iteration of navigate_to_node
LineIteration == iter.loop = "nav" /\ iter.kind = "line"
\* navigate_to_node was called with the node the trolley is at
NoOpCall == op.name = "navigate_to_node" /\ op.dest = op.start

\* current_node changes only by set_current_position or in a loop iteration
\* that has just read the expected UID, and then to the destination
ChangesOnlyOnMatch ==
  current_node' # current_node =>
    \/ op'.name = "set_current_position"
    \/ /\ pc \in {"nav", "rev"}
       /\ ReadExpectedUid'
       /\ current_node' = op.dest

\* C1 as stated: current_node changes only on a read of the expected UID or by
\* set_current_position, and a navigation call during which no read UID equals
\* the expected UID returns failure with current_node as it was before.
C1_AsStated ==
  [][ /\ ChangesOnlyOnMatch
      /\ (NavigationCall /\ Returned /\ ~ReadExpectedUid
            => result = "False" /\ current_node = op.start)' ]_vars

\* C1 (amended): current_node changes only on a read of the expected UID or by
\* set_current_position; a navigation call during which no read UID equals the
\* expected UID leaves current_node as it was and returns failure, except that
\* navigate_to_node called with the current node returns success at once.
C1_PositionAdvancesOnlyOnMatch ==
  [][ /\ ChangesOnlyOnMatch
      /\ (NavigationCall /\ Returned /\ ~ReadExpectedUid
            => /\ current_node = op.start
               /\ result = (IF NoOpCall THEN "True" ELSE "False"))' ]_vars

\* a navigation that read only wrong tags has timed out where it started
C1_Witness ==
  /\ op.name = "navigate_to_node"
  /\ Returned
  /\ iter.kind = "mismatch"
  /\ result = "False"
  /\ LastOf(reported).msg = "error:nav_timeout"
  /\ current_node = op.start

\* C2: when the loop of navigate_to_node reads the expected UID, Stop is sent,
\* current_node becomes the destination, arrived_at:<destination> is reported
\* and the call returns success, the Stop being sent before the return.
C2_StopSentOnArrival ==
  (op.name = "navigate_to_node" /\ ReadExpectedUid)
    => /\ Returned
       /\ result = "True"
       /\ current_node = op.dest
       /\ LastOf(reported) = Status("arrived_at", op.dest)
       /\ \E i \in 1..Len(iter.cmds) : iter.cmds[i] = CMD_STOP

\* C3: a line-correction iteration whose reading is all off-line (1,1,1), the
\* read-error default included, sends Stop, reports error:line_lost and returns
\* failure.
C3_LineLostStops ==
  (LineIteration /\ iter.sensors = <<1, 1, 1>>)
    => /\ Returned
       /\ result = "False"
       /\ iter.cmds = <<CMD_STOP>>
       /\ LastOf(reported).msg = "error:line_lost"

\* C4: get_state gives Lost for (1,1,1) and for the unlisted pattern (0,1,0).
C4_LostPatterns ==
  (LineIteration /\ iter.sensors \in {<<1, 1, 1>>, <<0, 1, 0>>})
    => iter.line_state = LINE_LOST

\* C5: get_state follows the policy table on the six on-line patterns: Centered
\* for (1,0,1) and (0,0,0), one veer verdict for (1,0,0) and (1,1,0), the other
\* veer verdict for (0,0,1) and (0,1,1).
C5_PolicyTable ==
  LineIteration =>
    \E a \in VeerStates : \E b \in VeerStates \ {a} :
      /\ a = get_state(1, 0, 0)
      /\ b = get_state(0, 0, 1)
      /\ iter.sensors \in {<<1, 0, 1>>, <<0, 0, 0>>} => iter.line_state = LINE_CENTERED
      /\ iter.sensors \in {<<1, 0, 0>>, <<1, 1, 0>>} => iter.line_state = a
      /\ iter.sensors \in {<<0, 0, 1>>, <<0, 1, 1>>} => iter.line_state = b

\* C6: for each of the 8 readings get_state returns one of the defined line
\* states, never an undefined value.
C6_ClassifierTotal ==
  LineIteration =>
    /\ iter.sensors \in SensorReadings
    /\ iter.line_state \in LineStates

\* the reading no branch of get_state names has been classified
C6_Witness ==
  /\ LineIteration
  /\ iter.sensors = <<0, 1, 0>>
  /\ iter.line_state = LINE_CENTERED

\* C7: a line-correction iteration sends at most one command, a steering
\* command that differs from the last command sent; an iteration whose verdict
\* repeats that of the line-correction iteration before it sends nothing, so
\* the sends number at most the iterations less the repeats.
C7_CommandDeduplication ==
  [][ (NavIterationStep /\ LineIteration')
        => /\ sent' = sent \o iter'.cmds
           /\ Len(iter'.cmds) <= 1
           /\ \A i \in 1..Len(iter'.cmds) :
                /\ iter'.cmds[i] # LastOf(sent)
                /\ iter'.cmds[i] \in {CMD_FORWARD, CMD_SLIGHT_LEFT, CMD_SLIGHT_RIGHT}
           /\ (LineIteration /\ iter.line_state = iter'.line_state) => sent' = sent
           /\ cnt'.sends <= cnt'.iters - cnt'.repeats
           /\ cnt'.repeats > 0 => cnt'.sends < cnt'.iters ]_vars

\* a veer was sent once and then repeated without a second send
C7_Witness ==
  /\ pc = "nav"
  /\ LineIteration
  /\ iter.line_state = LINE_SLIGHT_LEFT
  /\ iter.cmds = <<>>
  /\ cnt.repeats = 1
  /\ cnt.sends = 1
  /\ LastOf(sent) = CMD_SLIGHT_RIGHT

\* C8: an iteration of navigate_to_node that gets a tag line reads no sensor
\* and chooses no steering command; when the tag is the destination's, no
\* motion command is sent in the iteration and the call has returned.
C8_ArrivalPreemptsSteering ==
  [][ (NavIterationStep /\ iter'.uid # NoUid)
        => /\ iter'.sensors = <<>>
           /\ iter'.line_state = None
           /\ sent' = sent \o iter'.cmds
           /\ IsExpectedUid(iter'.uid)
                => /\ \A i \in 1..Len(iter'.cmds) : iter'.cmds[i] \notin MotionCommands
                   /\ pc' = "idle"
                   /\ result' = "True" ]_vars

\* navigate_to_node has returned on reading the destination's tag while veering
C8_Witness ==
  /\ op.name = "navigate_to_node"
  /\ ReadExpectedUid
  /\ Returned
  /\ LastOf(sent) = CMD_SLIGHT_LEFT

\* C9 as stated: with no expected UID in the registry for the destination,
\* navigate_to_node and reverse_until_node return failure at once, no command
\* sent, current_node unchanged.
C9_AsStated ==
  (NavigationCall /\ op.answer = NoUid)
    => /\ Returned
       /\ result = "False"
       /\ sent = <<>>
       /\ current_node = op.start

\* C9 (amended): with no expected UID in the registry for the destination,
\* reverse_until_node, and navigate_to_node when the destination is not the
\* current node, return failure at once, no command sent, current_node
\* unchanged.
C9_UnknownDestinationFails ==
  (NavigationCall /\ op.answer = NoUid /\ ~NoOpCall)
    => /\ Returned
       /\ result = "False"
       /\ sent = <<>>
       /\ current_node = op.start

\* a leg that would have begun with a turn failed on the missing UID
C9_Witness ==
  /\ op.name = "navigate_to_node"
  /\ op.answer = NoUid
  /\ get_turn_for_transition(op.start, op.dest) # None
  /\ result = "False"
  /\ LastOf(reported).msg = "error:no_uid"

\* C10: navigate_to_node with the current node as destination returns success
\* with no command sent, no status reported and current_node unchanged,
\* whatever the registry holds.
C10_NoOpAtDestination ==
  NoOpCall
    => /\ Returned
       /\ result = "True"
       /\ sent = <<>>
       /\ reported = <<>>
       /\ current_node = op.start

\* the no-op call succeeded although the registry has no UID for the node
C10_Witness ==
  /\ NoOpCall
  /\ op.answer = NoUid
  /\ op.dest = "RBJ1"
  /\ result = "True"

(* ---------------- wrong tags, timeouts, turns ---------------- *)
Occurrences(seq, c) == Cardinality({i \in 1..Len(seq) : seq[i] = c})
\* a step that reads a tag other than the expected one in navigate_to_node's loop
WrongTagStep ==
  /\ NavIterationStep
  /\ iter'.loop = "nav"
  /\ iter'.uid # NoUid
  /\ ~IsExpectedUid(iter'.uid)
\* the loop of execute_simple_turn has ended on a sensor reading
TurnCompleted ==
  /\ iter.loop = "turn"
  /\ \/ op.name = "execute_simple_turn" /\ Returned /\ result = "True"
     \/ op.name = "navigate_to_node" /\ pc = "nav"

\* C11: an iteration of navigate_to_node's loop that reads a tag other than the
\* expected one sends Forward, leaves current_node unchanged, reads no sensor
\* and corrects no line, and the loop goes on.
C11_WrongTagResumesForward ==
  [][ WrongTagStep
        => /\ sent' = Append(sent, CMD_FORWARD)
           /\ iter'.cmds = <<CMD_FORWARD>>
           /\ iter'.sensors = <<>>
           /\ iter'.line_state = None
           /\ current_node' = current_node
           /\ reported' = reported
           /\ pc' = "nav"
           /\ result' = "none" ]_vars

\* after a veer correction a wrong tag was read and Forward sent again
C11_Witness ==
  /\ pc = "nav"
  /\ iter.loop = "nav"
  /\ iter.uid # NoUid
  /\ ~IsExpectedUid(iter.uid)
  /\ Len(sent) >= 2
  /\ sent[Len(sent) - 1] \in {CMD_SLIGHT_LEFT, CMD_SLIGHT_RIGHT}
  /\ LastOf(sent) = CMD_FORWARD

\* C12: when navigation_timeout has elapsed in navigate_to_node's loop, the call
\* sends Stop, reports a status beginning error:nav_timeout, returns failure and
\* leaves current_node as it was before the call.
C12_NavTimeoutStops ==
  [][ (pc = "nav" /\ elapsed >= NavTimeoutTicks)
        => /\ sent' = Append(sent, CMD_STOP)
           /\ Len(reported') = Len(reported) + 1
           /\ LastOf(reported').msg = "error:nav_timeout"
           /\ result' = "False"
           /\ pc' = "idle"
           /\ current_node' = op.start ]_vars

\* a navigation has timed out on the line, Stop being the last command sent
C12_Witness ==
  /\ op.name = "navigate_to_node"
  /\ Returned
  /\ result = "False"
  /\ elapsed >= NavTimeoutTicks
  /\ iter.loop = "nav"
  /\ LastOf(reported).msg = "error:nav_timeout"
  /\ LastOf(sent) = CMD_STOP
  /\ current_node = op.start

\* C13: execute_simple_turn sends the turn command exactly once, and its loop
\* ends with success only on a reading that get_state classifies as Centered.
C13_TurnEndsOnCentered ==
  TurnCompleted
    => /\ Occurrences(sent, turn_command) = 1
       /\ get_state(iter.sensors[1], iter.sensors[2], iter.sensors[3]) = LINE_CENTERED

\* C14: when execute_simple_turn returns success, Forward is the last command
\* it has sent.
C14_ForwardAfterTurn ==
  (op.name = "execute_simple_turn" /\ Returned /\ result = "True")
    => LastOf(sent) = CMD_FORWARD

\* C15: when turn_timeout has elapsed in execute_simple_turn's loop, the call
\* sends Stop, reports error:turn_timeout:<direction> with the turn command it
\* was given, and returns failure.
C15_TurnTimeoutStops ==
  [][ (pc = "turn" /\ elapsed >= TurnTimeoutTicks)
        => /\ sent' = Append(sent, CMD_STOP)
           /\ turn_command \in TurnCommands
           /\ reported' = Append(reported, Status("error:turn_timeout", turn_command))
           /\ result' = "False"
           /\ pc' = "idle" ]_vars

\* a left turn called on its own has timed out
C15_Witness ==
  /\ op.name = "execute_simple_turn"
  /\ Returned
  /\ result = "False"
  /\ turn_command = CMD_LEFT
  /\ LastOf(reported) = Status("error:turn_timeout", CMD_LEFT)
  /\ LastOf(sent) = CMD_STOP

\* C16: the step that sends the turn command reads no sensor, and every sensor
\* reading of execute_simple_turn's loop is taken at least the settle delay
\* (a positive time) after the turn command was sent.
C16_TurnSettlesBeforeReading ==
  [][ /\ (pc # "turn" /\ pc' = "turn")
           => /\ LastOf(sent') = turn_command'
              /\ iter' = NoIter
              /\ result' = "none"
      /\ (pc = "turn" /\ elapsed < TurnTimeoutTicks)
           => /\ iter'.loop = "turn"
              /\ iter'.sensors \in SensorReadings
              /\ TurnSettleTicks > 0
              /\ elapsed >= TurnSettleTicks ]_vars

\* a turn has ended on its first reading, taken just after the settle delay
C16_Witness ==
  /\ op.name = "execute_simple_turn"
  /\ TurnCompleted
  /\ elapsed = TurnSettleTicks
  /\ Occurrences(sent, turn_command) = 1

(* ---------------- termination ---------------- *)
\* the state of the controller's thread: everything but the flags the app writes
ThreadVars == <<current_node, pc, op, result, expected_uid, last_command_sent,
                turn_command, elapsed, sent, reported, iter, cnt>>
\* the timeout of the loop the thread is in
Budget ==
  CASE pc = "turn" -> TurnTimeoutTicks
    [] pc \in {"nav", "rev"} -> NavTimeoutTicks
    [] pc = "wait" -> WaitTimeoutTicks
    [] OTHER -> 0

\* C17: every blocking operation (turn, navigation, reverse, item-confirmation
\* wait, home-confirmation wait) terminates: each step of its loop either
\* returns, or hands over from the initial turn to the navigation loop, or is
\* an iteration before the timeout that moves the loop's clock forward; and a
\* thread that keeps running always gets back to the caller.
C17_BlockingOperationsTerminate ==
  /\ [][ pc # "idle"
           => \/ pc' = "idle" /\ result' \in {"True", "False"}
              \/ pc = "turn" /\ pc' = "nav" /\ op.name = "navigate_to_node"
              \/ pc' = pc /\ elapsed < Budget /\ elapsed' > elapsed ]_ThreadVars
  /\ (pc # "idle") ~> (pc = "idle")

\* a confirmation wait whose flag was never set has returned by its timeout
C17_Witness ==
  /\ op.name \in WaitNames
  /\ Returned
  /\ result = "False"
  /\ flags[FlagPath] = FALSE
  /\ elapsed >= WaitTimeoutTicks

(* ---------------- cart merge ---------------- *)
\* the quantity a list submits for a product: the integer its entry converts
\* to, and 0 when the list has no entry for it or the entry is no number
Submitted(delta, p) ==
  IF p \in DOMAIN delta /\ ~IntRaises(delta[p]) THEN int(delta[p]) ELSE 0
\* both store operations of the latest merge went through
StoreAnswered == merge.read_ok /\ merge.write_ok

C20_PersistedQuantitiesPositive ==
  /\ \A r \in RequestIds : \A p \in DOMAIN carts[r] : carts[r][p] > 0
  /\ merge.request_id # None
       => /\ DOMAIN merge.final \subseteq CartProducts
          /\ \A p \in DOMAIN merge.final : merge.final[p] > 0
          /\ \A p \in CartProducts :
               Get(merge.existing, p) + Submitted(merge.delta, p) <= 0
                 => p \notin DOMAIN merge.final

\* a list took back all 3 of pdt1 and the entry is gone from the persisted cart
C20_Witness ==
  /\ merge.request_id = "r1"
  /\ StoreAnswered
  /\ Get(merge.stored, "pdt1") = 3
  /\ "pdt1" \in DOMAIN merge.delta
  /\ merge.delta["pdt1"] = IntValue(0 - 3)
  /\ "pdt1" \notin DOMAIN carts["r1"]

(* ---------------- the trip ---------------- *)
Range(seq) == {seq[i] : i \in 1..Len(seq)}
\* the request being handled is a cart list and its cart has been partitioned
PastPartition == trip.at \notin {"idle", "merged"} /\ trip.cont # "action_home"
\* the latest request was a cart list and its handling got past the partition
ListHandled ==
  /\ Len(log) >= 5
  /\ log[3] = Event("call", "process_shopping_list", None)
NonEmptyRows == {row \in RowNumbers : trip.rows[row] # <<>>}

\* C21: after the partition of the final cart, a product with a row assignment
\* is exactly once in the list of its row and in no other list, a product
\* without one is in no list, the lists hold nothing else, the run went on to
\* the rows or to the empty-cart return, and highest_row_with_items is the
\* largest row whose list is non-empty.
C21_RowPartitionExact ==
  /\ PastPartition =>
       /\ \A p \in DOMAIN merge.final : \A row \in RowNumbers :
            Occurrences(trip.rows[row], p) =
              IF p \in DOMAIN PRODUCT_ROWS /\ PRODUCT_ROWS[p] = row THEN 1 ELSE 0
       /\ \A row \in RowNumbers : Range(trip.rows[row]) \subseteq DOMAIN merge.final
       /\ \A row \in NonEmptyRows : row <= trip.highest
       /\ NonEmptyRows # {} => trip.highest \in NonEmptyRows
  /\ ListHandled =>
       /\ log[4] = StatusEvent("processing_list", None)
       /\ log[5].kind = "status"
       /\ log[5].name \in {"processing_row", "completed_empty_cart"}

\* the cart {pdt1, pdt4, pdt7, pdt99} was partitioned into three singleton
\* lists, pdt99 is in none, the highest row is 3 and row 1 is being processed
C21_Witness ==
  /\ PastPartition
  /\ DOMAIN merge.final = {"pdt1", "pdt4", "pdt7", "pdt99"}
  /\ trip.rows = [row \in RowNumbers |-> <<<<"pdt1">>, <<"pdt4">>, <<"pdt7">>>>[row]]
  /\ trip.highest = 3
  /\ log[5] = StatusEvent("processing_row", "1")

HasStatus(names) == \E i \in 1..Len(log) : log[i].kind = "status" /\ log[i].name \in names
HasCall(names) == \E i \in 1..Len(log) : log[i].kind = "call" /\ log[i].name \in names
ProductNodes == DOMAIN PRODUCT_ROWS
\* the final cart of the latest list holds no product with a row
NothingToFetch == ListHandled /\ DOMAIN merge.final \cap DOMAIN PRODUCT_ROWS = {}

\* C22: when no product of the final cart has a row, the trip reports
\* completed_empty_cart and starts the home-return at once: no row is
\* processed, no product node is a destination, and neither confirmation wait
\* is started.
C22_EmptyCartGoesHome ==
  NothingToFetch =>
    /\ log[5] = StatusEvent("completed_empty_cart", None)
    /\ log[6] = Event("call", "_move_trolley_to_home", None)
    /\ ~HasStatus({"processing_row", "moving_to_product", "waiting_for_item",
                   "item_added", "waiting_for_home_confirmation", "returning_home"})
    /\ ~HasCall(WaitNames)
    /\ \A i \in 1..Len(log) : log[i].kind = "call" => log[i].arg \notin ProductNodes
    /\ pc # "wait"

\* a list was merged into a cart that then held pdt99 only, away from home;
\* the trip reported completed_empty_cart and is on its way to the front junction
C22_Witness ==
  /\ NothingToFetch
  /\ DOMAIN merge.final = {"pdt99"}
  /\ trip.at = "home_aisle"
  /\ trip.cont = "empty_cart"
  /\ pc \in {"nav", "rev", "turn"}

\* the product nodes the trip has started a navigation to, in order
ProductCalls ==
  SelectSeq(log, LAMBDA e : e.kind = "call" /\ e.name = "navigate_to_node"
                            /\ e.arg \in ProductNodes)
\* the log of the trip before its home-return starts
BeforeHomeReturn ==
  LET starts == {i \in 1..Len(log) : log[i] = Event("call", "_move_trolley_to_home", None)}
  IN IF starts = {} THEN log ELSE SubSeq(log, 1, Smallest(starts) - 1)
RowJunctions(row) == {row_front_junction(row), row_back_junction(row)}

\* C23: the product nodes a trip navigates to come by ascending row and, within
\* a row, by ascending node identifier; row processing starts no navigation to
\* a junction of a row without items.
C23_DestinationsInOrder ==
  LET calls == ProductCalls
      rows == [i \in 1..Len(calls) |-> PRODUCT_ROWS[calls[i].arg]]
      nodes == [i \in 1..Len(calls) |-> NODE_MAPPING[calls[i].arg]]
      before == BeforeHomeReturn
      junctions == {before[i].arg : i \in {k \in 1..Len(before) : before[k].kind = "call"}}
  IN /\ \A i \in 1..(Len(calls) - 1) :
          \/ rows[i] < rows[i + 1]
          \/ rows[i] = rows[i + 1] /\ nodes[i] < nodes[i + 1]
     /\ ListHandled =>
          \A row \in RowNumbers :
            junctions \cap RowJunctions(row) # {}
              => \E p \in DOMAIN merge.final : ProductRow(p) = row

\* with pdt1, pdt2 and pdt7 in the cart and nothing in row 2, the trip went to
\* pdt1, then pdt2, then pdt7, by the junctions of rows 1 and 3 only
C23_Witness ==
  /\ DOMAIN merge.final = {"pdt1", "pdt2", "pdt7", "pdt99"}
  /\ [i \in 1..Len(ProductCalls) |-> ProductCalls[i].arg] = <<"pdt1", "pdt2", "pdt7">>
  /\ current_node = "pdt7"

\* the call whose return is entry k of the log: the latest call entry before k
CallBefore(k) ==
  log[Largest({i \in 1..(k - 1) : log[i].kind = "call"})]
\* entry k of the log is the return of a call of one of these names
ReturnOf(k, names) == log[k].kind = "ret" /\ CallBefore(k).name \in names
DeleteFailed == Event("raise", "delete_processing_status", None)
HandlerEnded(k) ==
  /\ Len(log) = k \/ (Len(log) = k + 1 /\ log[k + 1] = DeleteFailed)
  /\ log[k] = Event("call", "delete_processing_status", None)
  /\ trip.at = "idle"
  /\ pc = "idle"

\* C24: item_added:<p> is reported only right after the confirmation wait
\* returned True at node p, the wait having been started after waiting_for_item
\* was reported on arrival at p; a wait that returns False is followed by the
\* status error:item_confirmation_failed:<p>, a Stop, and the end of the
\* handling of the request, with no further call.
C24_ItemConfirmationGate ==
  \A k \in 1..Len(log) :
    /\ (log[k].kind = "status" /\ log[k].name = "item_added")
         => /\ k > 5
            /\ log[k - 1] = Event("ret", "True", log[k].arg)
            /\ log[k - 2] = Event("call", "wait_for_confirmation", None)
            /\ log[k - 3] = StatusEvent("waiting_for_item", log[k].arg)
            /\ log[k - 4] = Event("ret", "True", log[k].arg)
            /\ CallBefore(k - 4) = Event("call", "navigate_to_node", log[k].arg)
    /\ (ReturnOf(k, {"wait_for_confirmation"}) /\ log[k].name # "True")
         => /\ Len(log) >= k + 3
            /\ log[k + 1] = StatusEvent("error:item_confirmation_failed", log[k].arg)
            /\ log[k].arg \in ProductNodes
            /\ log[k + 2] = Event("cmd", CMD_STOP, None)
            /\ HandlerEnded(k + 3)

\* pdt1 was confirmed and reported as added; the wait at pdt2 then timed out
\* and the trip ended with error:item_confirmation_failed:pdt2 and a Stop
C24_Witness ==
  /\ \E k \in 1..Len(log) : log[k] = StatusEvent("item_added", "pdt1")
  /\ Len(log) > 3
  /\ LastOf(log) # DeleteFailed
  /\ log[Len(log) - 2] = StatusEvent("error:item_confirmation_failed", "pdt2")
  /\ current_node = "pdt2"
  /\ op.name = "wait_for_confirmation"
  /\ elapsed >= WaitTimeoutTicks

ErrorStatuses == {"error:no_uid", "error:nav_timeout", "error:turn_timeout",
                  "error:reverse_timeout"}
\* the place in the log where the home-return starts, or the end of the log
HomeReturnStart ==
  LET starts == {i \in 1..Len(log) : log[i] = Event("call", "_move_trolley_to_home", None)}
  IN IF starts = {} THEN Len(log) + 1 ELSE Smallest(starts)
\* entry k of the log is the return with False of a call of one of these names
Failed(k, names) ==
  /\ log[k].kind = "ret"
  /\ log[k].name # "True"
  /\ CallBefore(k).name \in names
\* the statuses of the log, in order
StatusesOf(events) == SelectSeq(events, LAMBDA e : e.kind = "status")

\* C25: when a navigation or a turn of row processing returns False, the
\* handling of the request ends there: no further product, row, command, wait
\* or home-return follows, and the last status written is the error status of
\* the failed call.
C25_RowFailureAborts ==
  ListHandled =>
    LET home == HomeReturnStart
    IN \A k \in 1..Len(log) :
         (k < home /\ Failed(k, {"navigate_to_node", "execute_simple_turn"}))
           => /\ HandlerEnded(k + 1)
              /\ log[k - 1].kind = "status"
              /\ log[k - 1].name \in ErrorStatuses
              /\ LastOf(StatusesOf(log)) = log[k - 1]

\* with pdt1 and pdt2 to fetch, the navigation to pdt2 timed out after pdt1 had
\* been added; the trip ended there with error:nav_timeout as its last status
C25_Witness ==
  /\ \E k \in 1..Len(log) : log[k] = StatusEvent("item_added", "pdt1")
  /\ Len(log) > 3
  /\ log[Len(log) - 1] = Event("ret", "False", "pdt1")
  /\ log[Len(log) - 2].name = "error:nav_timeout"
  /\ op.dest = "pdt2"
  /\ HandlerEnded(Len(log))

\* the latest request is a cart list whose final cart has a product with a row
SomethingToFetch ==
  ListHandled /\ log[5].name = "processing_row"

\* C26: in a trip with a product to fetch the home-return starts only after
\* every row with items was processed with every product added and no call
\* failed, waiting_for_home_confirmation was reported and the wait returned
\* True; a wait that returns False is followed by the status
\* error:home_confirmation_failed, a Stop and the end of the handling, and the
\* home-return never starts.
C26_HomeConfirmationGate ==
  SomethingToFetch =>
    LET home == HomeReturnStart
    IN /\ home <= Len(log) =>
            /\ log[home - 1] = StatusEvent("returning_home", None)
            /\ log[home - 2] = Event("ret", "True", log[home - 2].arg)
            /\ log[home - 3] = Event("call", "wait_for_home_confirmation", None)
            /\ log[home - 4] = StatusEvent("waiting_for_home_confirmation", None)
            /\ \A k \in 1..(home - 1) : log[k].kind = "ret" => log[k].name = "True"
            /\ \A p \in DOMAIN merge.final \cap ProductNodes :
                 \E k \in 1..(home - 1) :
                   /\ log[k] = StatusEvent("item_added", p)
                   /\ \E i \in 1..k :
                        log[i] = StatusEvent("processing_row", RowText(PRODUCT_ROWS[p]))
       /\ \A k \in 1..Len(log) :
            Failed(k, {"wait_for_home_confirmation"})
              => /\ home > Len(log)
                 /\ log[k + 1] = StatusEvent("error:home_confirmation_failed", None)
                 /\ log[k + 2] = Event("cmd", CMD_STOP, None)
                 /\ HandlerEnded(k + 3)

\* rows 1 and 3 were processed, the user confirmed the return, returning_home
\* was reported and the trolley is reversing from RBJ3 towards the front
C26_Witness ==
  /\ SomethingToFetch
  /\ DOMAIN merge.final = {"pdt1", "pdt2", "pdt7", "pdt99"}
  /\ HomeReturnStart < Len(log)
  /\ trip.cont = "confirmed"
  /\ trip.at = "home_aisle"
  /\ current_node = "RBJ3"
  /\ pc = "rev"

BackJunctions == {row_back_junction(row) : row \in RowNumbers}
\* entry k of the log is the arrival of row processing at a back junction
ArrivedAtBack(k) ==
  /\ log[k].kind = "ret"
  /\ log[k].name = "True"
  /\ log[k].arg \in BackJunctions
  /\ CallBefore(k) = Event("call", "navigate_to_node", log[k].arg)
  /\ k < HomeReturnStart
LeftTurn == Event("call", "execute_simple_turn", CMD_LEFT)
\* the row of a back junction
RowOfBack(node) == CHOOSE row \in RowNumbers : row_back_junction(row) = node

\* C27: on arrival at the back junction of row r the left turn is started if
\* and only if the cart has a product in a row above r; the left turn is
\* started nowhere else.
C27_LeftTurnIffRowsRemain ==
  ListHandled =>
    \A k \in 1..Len(log) :
      /\ ArrivedAtBack(k) =>
           (log[k + 1] = LeftTurn
              <=> \E p \in DOMAIN merge.final : ProductRow(p) > RowOfBack(log[k].arg))
      /\ (k > 1 /\ log[k] = LeftTurn) => ArrivedAtBack(k - 1)

\* with products in rows 1 and 3, the trolley turned left at RBJ1 and did not
\* turn at RBJ3, where it asked for the home confirmation
C27_Witness ==
  /\ ListHandled
  /\ \E k \in 1..(Len(log) - 1) :
       ArrivedAtBack(k) /\ log[k].arg = "RBJ1" /\ log[k + 1] = LeftTurn
  /\ \E k \in 1..(Len(log) - 1) :
       /\ ArrivedAtBack(k)
       /\ log[k].arg = "RBJ3"
       /\ log[k + 1] = StatusEvent("waiting_for_home_confirmation", None)
  /\ Occurrences(log, LeftTurn) = 1

\* the home-return of the latest request has returned, at entry k of the log
HomeReturnEnd ==
  LET ends == {i \in 1..Len(log) : log[i].kind = "end"}
  IN IF ends = {} THEN 0 ELSE Smallest(ends)
\* the node of the last arrival before entry k of the log: where the latest
\* successful navigation or reversal returned, or where the request came in
LastConfirmedNode(k) ==
  LET arrivals == {i \in 1..(k - 1) :
                     /\ log[i].kind = "ret"
                     /\ log[i].name = "True"
                     /\ CallBefore(i).name \in {"navigate_to_node", "reverse_until_node"}}
  IN IF arrivals = {} THEN log[1].arg ELSE log[Largest(arrivals)].arg
ArrivedHome == StatusEvent("arrived_at", "home")

\* C28: the home-return reports arrived_at:home only at home; started at home
\* it reports it at once, with no call and no command; otherwise it returns
\* either at home with arrived_at:home as the last status, or with an error
\* status as the last status and current_node the node of the last arrival.
C28_HomeReturnOutcome ==
  LET home == HomeReturnStart
      end == HomeReturnEnd
  IN end > 0 =>
       LET during == SubSeq(log, home + 1, end - 1)
           last == LastOf(StatusesOf(during))
       IN /\ \A i \in 1..Len(during) :
               during[i] = ArrivedHome
                 => \E j \in (i + 1)..(Len(during) + 1) :
                      /\ log[home + j].kind \in {"ret", "end"}
                      /\ log[home + j].arg = "home"
                      /\ \A m \in (i + 1)..(j - 1) : during[m].kind = "status"
          /\ LastConfirmedNode(home) = "home"
               => during = <<StatusEvent("moving_to", "home"), ArrivedHome>>
          /\ \/ log[end].arg = "home" /\ last = ArrivedHome
             \/ /\ last.name \in ErrorStatuses
                /\ log[end].arg = LastConfirmedNode(end)

\* asked to go home while at pdt4, the home-return looked up a junction RFJ4,
\* found no tag for it and returned at pdt4 with error:no_uid:RFJ4
C28_Witness ==
  /\ HomeReturnEnd > 1
  /\ log[1] = Event("request", "home", "pdt4")
  /\ log[HomeReturnEnd] = Event("end", "_move_trolley_to_home", "pdt4")
  /\ log[HomeReturnEnd - 2] = StatusEvent("error:no_uid", "RFJ4")
  /\ current_node = "pdt4"

\* the nodes at which the navigations and reversals of the log arrived, in order
Arrivals ==
  LET at == SelectSeq([k \in 1..Len(log) |-> k],
                      LAMBDA k : /\ log[k].kind = "ret"
                                 /\ log[k].name = "True"
                                 /\ CallBefore(k).name \in {"navigate_to_node",
                                                            "reverse_until_node"})
  IN [i \in 1..Len(at) |-> log[at[i]].arg]
\* the trolley was at home with an empty cart, the request was the list
\* {pdt4: 2}, every call of the trip returned True and the handler has ended
FetchPdt4Completed ==
  /\ ListHandled
  /\ log[1] = Event("request", "cart", "home")
  /\ merge.stored = EmptyCart
  /\ merge.delta = [p \in {"pdt4"} |-> IntValue(2)]
  /\ \A k \in 1..Len(log) : log[k].kind = "ret" => log[k].name = "True"
  /\ HandlerEnded(Len(log))

\* C29: from home with an empty cart, the list {pdt4: 2} with every turn
\* completing, every tag read and both confirmations given takes the trolley
\* over RFJ2, pdt4, RBJ2 and RFJ2 to home, the first leg starts without a turn,
\* and the last status is arrived_at:home.
C29_FetchPdt4EndToEnd ==
  /\ FetchPdt4Completed =>
       /\ <<log[1].arg>> \o Arrivals = <<"home", "RFJ2", "pdt4", "RBJ2", "RFJ2", "home">>
       /\ LastOf(StatusesOf(log)) = ArrivedHome
       /\ current_node = "home"
  /\ (op.name = "navigate_to_node" /\ op.start = "home" /\ op.dest = "RFJ2"
        /\ sent # <<>>)
       => /\ sent[1] = CMD_FORWARD
          /\ \A i \in 1..Len(sent) : sent[i] \notin TurnCommands

\* the trip for {pdt4: 2} from home has run to its end without a failure
C29_Witness ==
  /\ FetchPdt4Completed
  /\ Len(Arrivals) = 5
  /\ carts["r1"] = [p \in {"pdt4"} |-> 2]

HandlerRunning == trip.at # "idle"
\* the handler has ended by deleting the processing flag, and the flag is gone
\* unless the delete raised
FlagCleared ==
  /\ trip.at = "idle"
  /\ \E k \in 1..Len(log) : HandlerEnded(k)
  /\ LastOf(log) # DeleteFailed => processing[log[2].arg] = FALSE
\* the exception of process_request is handled before the flag is deleted
ExceptionHandledFirst ==
  \A k \in 1..Len(log) :
    (log[k].kind = "raise" /\ log[k] # DeleteFailed)
      => /\ log[k + 1] = StatusEvent("error:critical_processing_exception", None)
         /\ log[k + 2] = Event("cmd", CMD_STOP, None)
         /\ HandlerEnded(k + 3)

LogGoesOn == Len(log') >= Len(log) /\ SubSeq(log', 1, Len(log)) = log
\* the step hands an event to the handler
EventHandled == log' # log /\ log'[1].kind \in {"request", "request_unread"} /\ ~LogGoesOn
NothingButLog ==
  UNCHANGED <<current_node, pc, op, result, expected_uid, last_command_sent,
              turn_command, elapsed, sent, reported, iter, cnt, flags, carts,
              merge, processing, trip>>

C32_ReverseOpenLoop ==
  op.name = "reverse_until_node" =>
    /\ \A i \in 1..Len(sent) : sent[i] \in {CMD_BACKWARD, CMD_STOP}
    /\ iter.sensors = <<>> /\ iter.line_state = None
    /\ (result = "True" \/ current_node # op.start) =>
         /\ iter.kind = "match"
         /\ UidMatch(Lower(iter.uid), expected_uid)
         /\ current_node = op.dest
    /\ (result = "False" /\ sent # <<>>) =>
         /\ LastOf(sent) = CMD_STOP
         /\ LastOf(reported) = Status("error:reverse_timeout", op.dest)
         /\ elapsed >= NavTimeoutTicks
         /\ current_node = op.start

\* a reverse that passed a tag of another node and then timed out
C32_Witness ==
  /\ op.name = "reverse_until_node"
  /\ result = "False"
  /\ iter.kind = "mismatch"
  /\ LastOf(sent) = CMD_STOP
  /\ current_node = op.start
  /\ op.start # op.dest

(* ---------------- failing calls ---------------- *)
MotionCalls == {"execute_simple_turn", "navigate_to_node", "reverse_until_node"}
TimeoutNames == {"error:turn_timeout", "error:nav_timeout", "error:reverse_timeout"}
Timeouts(statuses) == SelectSeq(statuses, LAMBDA st : st.msg \in TimeoutNames)

\* C33: when a turn, a navigation or a reverse returns failure after having
\* sent a command, the last command sent is Stop, the call has reported
\* exactly one timeout status, the one of the loop that ran out (turn, nav or
\* reverse), as its last status, and has returned without starting over.
C33_FailureEndsStopped ==
  (op.name \in MotionCalls /\ result = "False" /\ sent # <<>>) =>
    /\ pc = "idle"
    /\ LastOf(sent) = CMD_STOP
    /\ Len(Timeouts(reported)) = 1
    /\ LastOf(reported).msg =
         CASE op.name = "execute_simple_turn" -> "error:turn_timeout"
           [] op.name = "reverse_until_node" -> "error:reverse_timeout"
           [] OTHER -> IF last_command_sent = None THEN "error:turn_timeout"
                                                   ELSE "error:nav_timeout"

\* a navigation that turned, followed the line and ran out of time
C33_Witness ==
  /\ op.name = "navigate_to_node"
  /\ result = "False"
  /\ Len(sent) >= 3
  /\ LastOf(sent) = CMD_STOP
  /\ LastOf(reported).msg = "error:nav_timeout"

(* ---------------- commands on the serial link ---------------- *)
\* C34: the commands sent within one call of navigate_to_node never hold the
\* same command twice in a row, whatever the sensors and the tags read.
C34_NoRepeatedCommand ==
  op.name = "navigate_to_node" =>
    \A i \in 1..(Len(sent) - 1) : sent[i] # sent[i + 1]

(* ---------------- pivot turns at a front junction ---------------- *)
PivotCommands == {CMD_LEFT, CMD_RIGHT}
Pivots(cmds) == Len(SelectSeq(cmds, LAMBDA c : c \in PivotCommands))
\* the position in the log of the latest arrival at a front junction, 0 when
\* the request began there
LastFrontArrival ==
  Largest({0} \cup {k \in 1..Len(log) : /\ log[k].kind = "status"
                                        /\ log[k].name = "arrived_at"
                                        /\ StartsWith(log[k].arg, "RFJ")})
\* the turns the controller has called since then
TurnCallsSinceFront ==
  Cardinality({k \in (LastFrontArrival + 1)..Len(log) :
                 /\ log[k].kind = "call"
                 /\ log[k].name = "execute_simple_turn"})

\* C35: when the trolley arrives from a front junction at the first product
\* of the row, or at home, one pivot-turn command has been sent since it was
\* at the junction.
C35_OnePivotAtFrontJunction ==
  ( /\ trip.at \in {"product_nav", "home_nav"}
    /\ pc = "idle"
    /\ op.name = "navigate_to_node"
    /\ StartsWith(op.start, "RFJ")
    /\ result = "True" )
    => TurnCallsSinceFront + Pivots(sent) = 1

(* ---------------- the order of a row ---------------- *)
\* entry k of the log is the arrival of a navigation at node
ArrivedAt(k, node) ==
  /\ log[k] = Event("ret", "True", node)
  /\ CallBefore(k) = Event("call", "navigate_to_node", node)
\* entry k of the log is the successful end of a right turn
TurnedRight(k) ==
  /\ log[k].kind = "ret"
  /\ log[k].name = "True"
  /\ CallBefore(k) = Event("call", "execute_simple_turn", CMD_RIGHT)
RowNavigations(upto) ==
  {k \in 1..upto : /\ log[k].kind = "call"
                   /\ log[k].name = "navigate_to_node"
                   /\ log[k].arg \in ProductNodes \cup BackJunctions}

\* C36: row processing navigates to a product of row r only after it arrived
\* at RFJr and the right turn there succeeded, and before any navigation to
\* RBJr; it navigates to RBJr only after item_added was reported for every
\* product of row r in the cart.
C36_RowOrder ==
  LET h == HomeReturnStart - 1
  IN \A k \in RowNavigations(h) :
       LET to_product == log[k].arg \in ProductNodes
           r == IF to_product THEN PRODUCT_ROWS[log[k].arg] ELSE RowOfBack(log[k].arg)
           back == Event("call", "navigate_to_node", row_back_junction(r))
       IN /\ \E i \in 1..(k - 1) :
               /\ ArrivedAt(i, row_front_junction(r))
               /\ \E j \in (i + 1)..(k - 1) : TurnedRight(j)
          /\ to_product => \A i \in 1..(k - 1) : log[i] # back
          /\ ~to_product =>
               \A p \in Range(products_by_row(merge.final)[r]) :
                 \E i \in 1..(k - 1) : log[i] = StatusEvent("item_added", p)

\* pdt1 and pdt2 were reached and confirmed in this order after the turn at
\* RFJ1, and the trolley then set out for RBJ1
C36_Witness ==
  /\ Len(log) >= 10
  /\ LastOf(log) = Event("call", "navigate_to_node", "RBJ1")
  /\ log[Len(log) - 1] = StatusEvent("item_added", "pdt2")
  /\ \E i \in 1..Len(log) : log[i] = StatusEvent("item_added", "pdt1")

(* ---------------- the request to go home ---------------- *)
\* C37: a request with the action home whose home-return left the trolley at
\* home reports no error:critical_processing_exception, and the last status
\* it reports is completed or arrived_at:home.
C37_HomeActionCompletes ==
  ( /\ Len(log) > 2
    /\ log[1] = Event("request", "home", log[1].arg)
    /\ log[2].kind # "ignored"
    /\ trip.at = "idle"
    /\ current_node = "home" )
    => LET statuses == StatusesOf(log)
       IN /\ \A i \in 1..Len(statuses) :
               statuses[i].name # "error:critical_processing_exception"
          /\ LastOf(statuses).name \in {"completed", "arrived_at"}

(* ---------------- confirmation flags ---------------- *)
\* _wait_for_flag returns
WaitReturns == pc = "wait" /\ pc' = "idle"

\* C38, as stated: whenever _wait_for_flag returns True the flag is False.
C38_AsStated ==
  [][ (WaitReturns /\ result' = "True") => flags'[FlagPath] = FALSE ]_vars

\* C38: _wait_for_flag returns True only on reading the flag as True and then
\* writes False to it: when that write goes through the flag is False on
\* return, so the same write of True satisfies no second wait; when the write
\* raises the flag stays True.  A wait that returns False leaves the flags as
\* they were, and no wait touches the other flag.
C38_FlagConsumedOnce ==
  [][ WaitReturns =>
        /\ result' = "True" =>
             /\ flags[FlagPath] = TRUE
             /\ iter'.kind \in {"reset", "reset_failed"}
             /\ flags'[FlagPath] = (iter'.kind = "reset_failed")
        /\ result' = "False" => flags' = flags
        /\ \A path \in DOMAIN flags : path # FlagPath => flags'[path] = flags[path] ]_vars

\* the item confirmation was consumed: the wait returned True and the flag is
\* False again while the home flag is still set
C38_Witness ==
  /\ op.name = "wait_for_confirmation"
  /\ pc = "idle"
  /\ result = "True"
  /\ iter.kind = "reset"
  /\ flags["confirmed"] = FALSE
  /\ flags["homeConfirmed"] = TRUE

(* ---------------- the command on record ---------------- *)
\* C39: in navigate_to_node, from the first Forward to the return on the
\* destination's tag, last_command_sent is the command sent last.
C39_RecordMatchesLastCommand ==
  ( /\ op.name = "navigate_to_node"
    /\ sent # <<>>
    /\ pc = "nav" \/ (pc = "idle" /\ result = "True") )
    => last_command_sent = LastOf(sent)

(* ---------------- the topology ---------------- *)
\* C40: current_node is a key of NODE_MAPPING, and so is every destination
\* the controller has passed to navigate_to_node or reverse_until_node.
C40_TopologyClosed ==
  /\ current_node \in DOMAIN NODE_MAPPING
  /\ \A k \in 1..Len(log) :
       (log[k].kind = "call" /\ log[k].name \in {"navigate_to_node", "reverse_until_node"})
         => log[k].arg \in DOMAIN NODE_MAPPING

====
